---- MODULE Spec2Model ----
(***************************************************************************)
(* Model of the Redis multi-agent orchestrator (redis_orchestrator.py) and *)
(* of the agent worker loop (redis_agent_worker.py).                       *)
(*                                                                         *)
(* Python dicts are insertion-ordered: a dict is modelled as a sequence of *)
(* <<key, value>> pairs with distinct keys.  JSON objects are TLA+ records *)
(* whose DOMAIN is the set of keys present, so `"k" in r` is               *)
(* "k" \in DOMAIN r.  Scores and confidences are numbers counted in units  *)
(* of one tenth; a quotient such as sum(scores)/len(scores) is kept as an  *)
(* exact fraction in lowest terms (floating-point rounding is not          *)
(* modelled).                                                              *)
(***************************************************************************)
EXTENDS Integers, Sequences, FiniteSets, TLC

VARIABLES
    evaluation_results,   \* build_consensus argument: evaluator -> evaluation
    solution_results,     \* build_consensus argument: agent -> solution
    consensus,            \* value returned by build_consensus
    fallback_used,        \* ghost: the branch of line 235 that was taken
    cpc,                  \* position of the build_consensus call
    now,                  \* wall clock, in poll intervals of wait_for_result
    phase_no,             \* which run_parallel_phase call is running
    opc,                  \* position of the orchestrator in run_parallel_phase
    task_ids,             \* run_parallel_phase local: agent -> task id
    results,              \* run_parallel_phase local: agent -> result
    waiter,               \* the wait_for_result thread of each agent
    queue,                \* Redis lists agent_tasks:<agent_id>
    store,                \* Redis keys result:<task_id>
    worker,               \* the RedisAgentWorker process of each agent
    posted,               \* ghost: every result a worker has stored, and when
    cs_pc,                \* position of collaborative_solve
    phases,               \* the keys of all_results["phases"], in insertion order
    implementation_results,  \* collaborative_solve local
    final_result,         \* all_results["final_result"]
    session_id,           \* self.session_id of the orchestrator in use
    sent,                 \* ghost: the task ids returned by send_task_to_agent
    solution_record,      \* validate_solution_fields argument `solution`
    activity_log,         \* the activities written by log_activity
    vpc,                  \* position of the caller of validate_solution_fields
    response,             \* the text returned by call_llm, as a sequence of tokens
    embedded,             \* ghost: the record that the response was built around
    json_str,             \* the text returned by the parser
    ppc,                  \* position of the caller of the parser
    all_solutions,        \* enhanced_evaluate_solutions argument
    loaded,               \* outcome of lines 462-463: the value parsed, or the error
    evaluation_record,    \* value returned by enhanced_evaluate_solutions
    epc,                  \* position of enhanced_evaluate_solutions
    all_results,          \* all_results["phases"] of collaborative_solve
    task_data,            \* task["data"] of the phase that is running
    agent_call,           \* ghost: the agent method process_task called, with its arguments
    dpc,                  \* position of collaborative_solve and of the worker
    max_retries,          \* call_llm argument
    attempt,              \* call_llm loop variable
    slept,                \* ghost: the wait_time of every time.sleep of call_llm
    replies,              \* ghost: how each request of call_llm ended
    lpc,                  \* position of call_llm
    shared_queue,         \* the Redis list of an agent id served by several workers
    pool,                 \* the worker processes started with that agent id
    pool_log,             \* ghost: the pushes, pops and stores on that list, in order
    timed                 \* ghost: the workers whose processing times are recorded

consensusVars ==
    <<evaluation_results, solution_results, consensus, fallback_used, cpc>>

phaseVars ==
    <<now, phase_no, opc, task_ids, results, waiter, queue, store, worker, posted>>

pipeVars == <<cs_pc, phases, implementation_results, final_result>>

sendVars == <<session_id, sent>>

validateVars == <<solution_record, activity_log, vpc>>

parseVars == <<response, embedded, json_str, ppc>>

evalVars == <<all_solutions, loaded, evaluation_record, epc>>

agentVars == <<validateVars, parseVars, evalVars>>

flowVars == <<all_results, task_data, agent_call, dpc>>

callVars == <<max_retries, attempt, slept, replies, lpc>>

poolVars == <<shared_queue, pool, pool_log>>

clockVars == <<timed>>

lateVars == <<flowVars, callVars, poolVars, clockVars>>

vars == <<consensusVars, phaseVars, pipeVars, sendVars, agentVars, lateVars>>

----------------------------------------------------------------------------
(* Bounds of the model *)

MaxScore == 2
MaxItems == 2
MaxEvaluators == 2
\* the timeout of wait_for_result, counted in poll intervals
TimeoutTicks == 2
\* the number of agents whose task of the previous phase is still queued
\* when a phase starts
MaxStale == 1

----------------------------------------------------------------------------
(* Program constants *)

\* self.agents, redis_orchestrator.py line 26
Roster == <<"agent_a", "agent_b", "agent_c", "agent_d">>

Agents == {Roster[i] : i \in 1..Len(Roster)}

\* the default of `evaluators' confidence` (0.5), in tenths
DefaultConfidence == 5

\* the hard-wired last resort of the fallback, lines 248 and 251
DefaultBestAgent == "agent_a"

\* dict.get("agent_id") of an item that has no agent_id
None == "None"

----------------------------------------------------------------------------
(* Ordered dicts *)

KeySet(d) == {d[i][1] : i \in 1..Len(d)}

HasKey(d, k) == k \in KeySet(d)

Lookup(d, k) == d[CHOOSE i \in 1..Len(d) : d[i][1] = k][2]

\* d[k] = v : an existing key keeps its position, a new one goes last
Put(d, k, v) ==
    IF HasKey(d, k)
    THEN [i \in 1..Len(d) |-> IF d[i][1] = k THEN <<k, v>> ELSE d[i]]
    ELSE Append(d, <<k, v>>)

----------------------------------------------------------------------------
(* Exact fractions *)

RECURSIVE Gcd(_, _)
Gcd(a, b) == IF b = 0 THEN a ELSE Gcd(b, a % b)

Frac(n, d) == LET g == Gcd(n, d) IN [num |-> n \div g, den |-> d \div g]

FracLess(x, y) == x.num * y.den < y.num * x.den

RECURSIVE SumSeq(_)
SumSeq(s) == IF s = <<>> THEN 0 ELSE Head(s) + SumSeq(Tail(s))

\* sum(xs) / len(xs)
MutMeanDropsLast(xs) == Frac(SumSeq(SubSeq(xs, 1, Len(xs) - 1)), Len(xs))

Mean(xs) == Frac(SumSeq(xs), Len(xs))

----------------------------------------------------------------------------
(* build_consensus, redis_orchestrator.py lines 177-268 *)

\* line 188: isinstance(evaluation, dict) and "error" not in evaluation
MutErrorFreeAlways(r) == TRUE

ErrorFree(r) == "error" \notin DOMAIN r

\* line 208: `if eval_agent:`
Truthy(agent_id) == agent_id # None /\ agent_id # ""

\* lines 192-218: the evaluation_details entries one evaluator contributes
DetailsOf(evaluator_id, evaluation) ==
    IF "detailed_evaluations" \in DOMAIN evaluation
    THEN [j \in 1..Len(evaluation.detailed_evaluations) |->
            LET eval_item == evaluation.detailed_evaluations[j] IN
            [evaluator |-> evaluator_id,
             evaluated |-> IF "agent_id" \in DOMAIN eval_item
                           THEN eval_item.agent_id ELSE None,
             score     |-> IF "overall_score" \in DOMAIN eval_item
                           THEN eval_item.overall_score ELSE 0,
             details   |-> eval_item]]
    ELSE <<>>

\* lines 187-218: evaluation_details, over the evaluators in dict order
RECURSIVE EvaluationDetails(_)
EvaluationDetails(evals) ==
    IF evals = <<>> THEN <<>>
    ELSE LET evaluator_id == Head(evals)[1]
             evaluation   == Head(evals)[2]
         IN  (IF ErrorFree(evaluation)
              THEN DetailsOf(evaluator_id, evaluation) ELSE <<>>)
             \o EvaluationDetails(Tail(evals))

\* lines 208-211: all_scores, a dict evaluated agent -> list of scores
RECURSIVE AllScores(_, _)
AllScores(details, acc) ==
    IF details = <<>> THEN acc
    ELSE LET d == Head(details) IN
         AllScores(Tail(details),
            IF Truthy(d.evaluated)
            THEN Put(acc, d.evaluated,
                     Append(IF HasKey(acc, d.evaluated)
                            THEN Lookup(acc, d.evaluated) ELSE <<>>,
                            d.score))
            ELSE acc)

\* lines 220-221: confidence_scores
RECURSIVE MutConfidenceOfAll(_)
MutConfidenceOfAll(evals) ==
    IF evals = <<>> THEN <<>>
    ELSE LET evaluation == Head(evals)[2] IN
         (IF "confidence" \in DOMAIN evaluation
          THEN <<evaluation.confidence>> ELSE <<>>)
         \o MutConfidenceOfAll(Tail(evals))

RECURSIVE ConfidenceScores(_)
ConfidenceScores(evals) ==
    IF evals = <<>> THEN <<>>
    ELSE LET evaluation == Head(evals)[2] IN
         (IF ErrorFree(evaluation) /\ "confidence" \in DOMAIN evaluation
          THEN <<evaluation.confidence>> ELSE <<>>)
         \o ConfidenceScores(Tail(evals))

\* lines 226-232: consensus_scores, same key order as all_scores
ConsensusScores(all_scores) ==
    [i \in 1..Len(all_scores) |->
        <<all_scores[i][1], Mean(all_scores[i][2])>>]

\* line 235: not consensus_scores or all(score == 0 ...)
MutFallbackOnAnyZero(consensus_scores) ==
    \/ consensus_scores = <<>>
    \/ \E i \in 1..Len(consensus_scores) : consensus_scores[i][2].num = 0

UsesFallback(consensus_scores) ==
    \/ consensus_scores = <<>>
    \/ \A i \in 1..Len(consensus_scores) : consensus_scores[i][2].num = 0

\* lines 238-242: source_confidences
RECURSIVE SourceConfidences(_)
SourceConfidences(solutions) ==
    IF solutions = <<>> THEN <<>>
    ELSE LET agent_id == Head(solutions)[1]
             solution == Head(solutions)[2]
         IN  (IF "confidence" \in DOMAIN solution
              THEN <<<<agent_id, Frac(solution.confidence, 1)>>>> ELSE <<>>)
             \o SourceConfidences(Tail(solutions))

\* max(d.keys(), key=lambda x: d[x]) : Python's max keeps the first of the
\* maximal elements in iteration order
MutMinKey(d) ==
    d[CHOOSE i \in 1..Len(d) :
        /\ \A j \in 1..Len(d) : ~FracLess(d[j][2], d[i][2])
        /\ \A j \in 1..(i-1) : FracLess(d[i][2], d[j][2])][1]

MaxKey(d) ==
    d[CHOOSE i \in 1..Len(d) :
        /\ \A j \in 1..Len(d) : ~FracLess(d[i][2], d[j][2])
        /\ \A j \in 1..(i-1) : FracLess(d[j][2], d[i][2])][1]

\* lines 235-251: best_agent
BestAgent(consensus_scores, solutions) ==
    IF UsesFallback(consensus_scores)
    THEN LET source_confidences == SourceConfidences(solutions) IN
         IF source_confidences # <<>>
         THEN MaxKey(source_confidences)
         ELSE DefaultBestAgent
    ELSE MaxKey(consensus_scores)

\* line 252: avg_confidence
AvgConfidence(confidence_scores) ==
    IF confidence_scores # <<>>
    THEN Mean(confidence_scores)
    ELSE Frac(DefaultConfidence, 1)

\* line 266: total_evaluators
TotalEvaluators(evals) ==
    Cardinality({i \in 1..Len(evals) : "error" \notin DOMAIN evals[i][2]})

build_consensus(evals, solutions) ==
    LET evaluation_details == EvaluationDetails(evals)
        consensus_scores   == ConsensusScores(AllScores(evaluation_details, <<>>))
    IN  [best_agent         |-> BestAgent(consensus_scores, solutions),
         consensus_scores   |-> consensus_scores,
         confidence         |-> AvgConfidence(ConfidenceScores(evals)),
         total_evaluators   |-> TotalEvaluators(evals),
         evaluation_details |-> evaluation_details]

----------------------------------------------------------------------------
(* Inputs of build_consensus *)

SeqsUpTo(S, n) == UNION {[1..k -> S] : k \in 0..n}

\* dicts with the given records as values and distinct keys from `keys`
DictsOver(keys, records, n) ==
    {d \in SeqsUpTo(keys \X records, n) :
        \A i, j \in 1..Len(d) : i # j => d[i][1] # d[j][1]}

Scores == 0..MaxScore

\* the agents an evaluator names in its detailed_evaluations
EvaluatedIds == {Roster[1], Roster[2]}

\* the evaluators whose entries are present
Evaluators == {Roster[i] : i \in 1..MaxEvaluators}

\* items of detailed_evaluations: agent_id and overall_score may be absent
EvalItems ==
    [agent_id : EvaluatedIds, overall_score : Scores]
    \cup [overall_score : Scores]
    \cup [agent_id : EvaluatedIds]

\* wait_for_result line 108
TimeoutRecord == [error |-> [msg |-> "Timeout waiting for"]]

\* enhanced_evaluate_solutions lines 504-513: the record posted after a JSON
\* parse error carries default evaluations, a confidence and an error
ParseFallbackEvaluations ==
    {[detailed_evaluations |-> items, confidence |-> DefaultConfidence,
      error |-> [msg |-> "JSON parse error"]] :
        items \in SeqsUpTo([agent_id : EvaluatedIds, overall_score : {MaxScore}], 1)}

Evaluations ==
    {[detailed_evaluations |-> items] : items \in SeqsUpTo(EvalItems, MaxItems)}
    \cup {[detailed_evaluations |-> items, confidence |-> c] :
            items \in SeqsUpTo([agent_id : EvaluatedIds, overall_score : Scores], 1),
            c \in Scores}
    \cup {[confidence |-> c] : c \in Scores}
    \cup {TimeoutRecord}
    \cup ParseFallbackEvaluations

\* evaluations that collect no score or only zero scores
DegenerateEvaluations ==
    {[detailed_evaluations |-> items] :
        items \in SeqsUpTo([agent_id : EvaluatedIds, overall_score : {0}]
                           \cup [overall_score : Scores]
                           \cup [agent_id : EvaluatedIds], 1)}
    \cup {TimeoutRecord}
    \cup ParseFallbackEvaluations

\* solve-phase entries: a timeout, a validated solution, or the fallback
\* solution of solution_phase lines 322-336 (error and confidence 0.5)
Solutions ==
    {TimeoutRecord}
    \cup {[confidence |-> c] : c \in Scores}
    \cup {[confidence |-> DefaultConfidence, error |-> [msg |-> "JSON parse error"]]}

\* an agent id that is not in self.agents
ForeignAgentId == "agent_x"

\* evaluations that score one agent id, which need not be one of the roster
\* nor one whose solution the evaluator was shown (enhanced_agent.py line 344
\* leaves out the solve entries with an error)
NamedEvaluations ==
    {[detailed_evaluations |-> <<[agent_id |-> a, overall_score |-> MaxScore]>>,
      confidence |-> DefaultConfidence] : a \in {Roster[2], ForeignAgentId}}

NamedEvalInputs == DictsOver(Evaluators, NamedEvaluations, 1)

EvalInputs == DictsOver(Evaluators, Evaluations, MaxEvaluators)

DegenerateEvalInputs == DictsOver(Evaluators, DegenerateEvaluations, MaxEvaluators)

SolInputs == DictsOver(EvaluatedIds, Solutions, 2)

\* solution_results = None, and one in which agent_b is the most confident
FewSolInputs ==
    {<<>>, <<<<Roster[1], [confidence |-> 0]>>, <<Roster[2], [confidence |-> MaxScore]>>>>}


----------------------------------------------------------------------------
(* Redis, tasks and results *)

\* time.sleep(0.5) at line 105: two polls per second of time.time()
TicksPerSecond == 2

\* self.session_id, line 27
SessionId == "session"

\* the phases run through run_parallel_phase by collaborative_solve,
\* lines 363, 373, 383, 394 and 410
PhaseNames == <<"plan", "analyze", "solve", "evaluate", "implement">>

\* json.dumps / json.loads of a JSON value: the text and the value it decodes to
JsonDumps(v) == [json |-> v]

JsonLoads(text) == text.json

\* line 49: f"{self.session_id}_{phase}_{agent_id}_{int(time.time())}"
TaskId(agent_id, phase, t) ==
    [session |-> SessionId, phase |-> phase, agent |-> agent_id,
     ts |-> t \div TicksPerSecond]

\* lines 51-59 (data and the timestamp text are left out)
Task(agent_id, phase, t) ==
    [task_id |-> TaskId(agent_id, phase, t), session_id |-> SessionId,
     agent_id |-> agent_id, phase |-> phase, status |-> "pending"]

\* line 62: f"{self.task_queue}:{agent_id}"
QueueName(agent_id) == <<"agent_tasks", agent_id>>

\* redis_agent_worker.py line 39: f"agent_tasks:{self.agent_id}"
WorkerQueueName(agent_id) == <<"agent_tasks", agent_id>>

\* lines 81 and 96: f"result:{task_id}"
MutResultKeyOfFirstAgent(task_id) == <<"result", [task_id EXCEPT !.agent = Roster[1]]>>

ResultKey(task_id) == <<"result", task_id>>

\* redis_agent_worker.py line 56: f"result:{task['task_id']}"
WorkerResultKey(task) == <<"result", task.task_id>>

\* LPUSH / BRPOP: pushed at the head, popped at the tail
LPush(q, x) == <<x>> \o q

MutPopsHead(q) == q[1]

RPopped(q) == q[Len(q)]

MutRestKeepsTail(q) == q

RRest(q) == SubSeq(q, 1, Len(q) - 1)

\* redis_agent_worker.py line 57: ex=3600, the time to live of a result
ResultTtl == 3600

\* GET / SET / DEL on the keys of the store, a set of <<key, value, ttl>>
Exists(st, key) == \E kv \in st : kv[1] = key

Get(st, key) == (CHOOSE kv \in st : kv[1] = key)[2]

MutDelNothing(st, key) == st

MutDelOfAgent(st, key) == {kv \in st : kv[1][2].agent # key[2].agent}

Del(st, key) == {kv \in st : kv[1] # key}

Set(st, key, value, ex) == Del(st, key) \cup {<<key, value, ex>>}

\* line 108: {"error": f"Timeout waiting for {task_id}"}
TimeoutResult(task_id) ==
    [error |-> [msg |-> "Timeout waiting for", task_id |-> task_id]]

\* process_task, redis_agent_worker.py lines 65-88: the record of the phase
\* method, or the error record of line 88 when it raises
ProcessTask(agent_id, task, outcome) ==
    IF \A i \in 1..Len(PhaseNames) : PhaseNames[i] # task.phase
    THEN [error |-> [msg |-> "Unknown phase"]]
    ELSE IF outcome = "ok"
    THEN [agent_id |-> agent_id, phase |-> task.phase]
    ELSE [error |-> [msg |-> "Task processing error"]]

NoResult == [pending |-> TRUE]

IdleWaiter == [st |-> "idle", task_id |-> NoResult, start |-> 0, wake |-> 0]

IdleWorker == [st |-> "idle", task |-> NoResult]

----------------------------------------------------------------------------
(* run_parallel_phase, wait_for_result and the worker loop *)

Phase == PhaseNames[phase_no]

\* line 79: the loop goes on while time.time() - start_time < timeout
Expired(start, t) == ~(t - start < TimeoutTicks)

\* line 141: results[agent_id] = result
MutDropsErrors(res, agent_id, result) ==
    IF "error" \in DOMAIN result THEN res ELSE Put(res, agent_id, result)

Recorded(res, agent_id, result) == Put(res, agent_id, result)

\* lines 118-120: send_task_to_agent for the first n agents of the roster
RECURSIVE SentQueues(_, _, _, _)
SentQueues(q, n, phase, t) ==
    IF n = 0 THEN q
    ELSE LET agent_id == Roster[n] IN
         [SentQueues(q, n - 1, phase, t) EXCEPT ![QueueName(agent_id)] =
             LPush(@, JsonDumps(Task(agent_id, phase, t)))]

\* lines 117-120: task_ids after the first n agents
SentTaskIds(n, phase, t) ==
    [i \in 1..n |-> <<Roster[i], Task(Roster[i], phase, t).task_id>>]

\* lines 116-133: the tasks are sent to all agents, then one wait_for_result
\* per task is submitted; all waits run at once (max_workers = 4 = the
\* roster) and read start_time at line 74
Dispatch ==
    /\ opc = "dispatch"
    /\ queue' = SentQueues(queue, Len(Roster), Phase, now)
    /\ task_ids' = SentTaskIds(Len(Roster), Phase, now)
    /\ waiter' = [a \in Agents |->
                    [st |-> "waiting", task_id |-> Lookup(task_ids', a),
                     start |-> now, wake |-> now]]
    /\ opc' = "collect"
    /\ UNCHANGED <<consensusVars, pipeVars, sendVars, agentVars, lateVars>>
    /\ UNCHANGED <<now, phase_no, results, store, worker, posted>>

\* line 63 raising while the task of the n-th agent is pushed: nothing in
\* send_task_to_agent, run_parallel_phase or collaborative_solve catches it
PushRaises ==
    /\ opc = "dispatch"
    /\ \E n \in 1..Len(Roster) :
          /\ queue' = SentQueues(queue, n - 1, Phase, now)
          /\ task_ids' = SentTaskIds(n - 1, Phase, now)
    /\ opc' = "raised"
    /\ UNCHANGED <<consensusVars, pipeVars, sendVars, agentVars, lateVars>>
    /\ UNCHANGED <<now, phase_no, results, waiter, store, worker, posted>>

\* lines 79-108: one turn of the loop of wait_for_result; when it returns,
\* as_completed hands the finished wait over and line 141 records the result
Poll(a) ==
    /\ opc = "collect"
    /\ waiter[a].st = "waiting"
    /\ waiter[a].wake <= now
    /\ LET w   == waiter[a]
           key == ResultKey(w.task_id)
       IN  IF Expired(w.start, now)
           THEN /\ waiter' = [waiter EXCEPT ![a].st = "collected"]
                /\ results' = Recorded(results, a, TimeoutResult(w.task_id))
                /\ store' = store
           ELSE IF Exists(store, key)
           THEN /\ waiter' = [waiter EXCEPT ![a].st = "collected"]
                /\ results' = Recorded(results, a, JsonLoads(Get(store, key)))
                /\ store' = Del(store, key)
           ELSE /\ waiter' = [waiter EXCEPT ![a].wake = now + 1]
                /\ results' = results
                /\ store' = store
    /\ UNCHANGED <<consensusVars, pipeVars, sendVars, agentVars, lateVars>>
    /\ UNCHANGED <<now, phase_no, opc, task_ids, queue, worker, posted>>

\* line 175
ReturnResults ==
    /\ opc = "collect"
    /\ \A a \in Agents : waiter[a].st = "collected"
    /\ opc' = "returned"
    /\ UNCHANGED <<consensusVars, pipeVars, sendVars, agentVars, lateVars>>
    /\ UNCHANGED <<now, phase_no, task_ids, results, waiter, queue, store, worker,
                   posted>>

\* redis_agent_worker.py lines 44-48: brpop on the worker's own queue
WorkerPop(w) ==
    /\ worker[w].st = "idle"
    /\ queue[WorkerQueueName(w)] # <<>>
    /\ worker' = [worker EXCEPT ![w] =
                    [st |-> "busy",
                     task |-> JsonLoads(RPopped(queue[WorkerQueueName(w)])),
                     since |-> IF w \in timed THEN now ELSE 0]]
    /\ queue' = [queue EXCEPT ![WorkerQueueName(w)] = RRest(@)]
    /\ UNCHANGED <<consensusVars, pipeVars, sendVars, agentVars, lateVars>>
    /\ UNCHANGED <<now, phase_no, opc, task_ids, results, waiter, store, posted>>

\* ghost: a wait for this task is running and its timeout has not elapsed
BeforeDeadline(task_id) ==
    \E a \in Agents :
        /\ waiter[a].st = "waiting"
        /\ waiter[a].task_id = task_id
        /\ ~Expired(waiter[a].start, now)

\* redis_agent_worker.py lines 53-57: process the task and store the result
\* (ghost: how long the processing took, for the workers that are timed)
WorkerPost(w) ==
    /\ worker[w].st = "busy"
    /\ \E outcome \in {"ok", "error"} :
          LET task   == worker[w].task
              result == ProcessTask(w, task, outcome)
          IN  /\ store' = Set(store, WorkerResultKey(task), JsonDumps(result),
                               ResultTtl)
              /\ posted' = posted \cup
                    {[task_id |-> task.task_id, record |-> result,
                      in_time |-> BeforeDeadline(task.task_id),
                      took |-> IF w \in timed THEN now - worker[w].since ELSE 0]}
    /\ worker' = [worker EXCEPT ![w] = IdleWorker]
    /\ UNCHANGED <<consensusVars, pipeVars, sendVars, agentVars, lateVars>>
    /\ UNCHANGED <<now, phase_no, opc, task_ids, results, waiter, queue>>

\* time passes while the orchestrator has nothing to do but sleep in its
\* waits: every running wait has polled in this interval
Tick ==
    /\ opc = "collect"
    /\ \A a \in Agents :
          \/ waiter[a].st = "collected"
          \/ waiter[a].st = "waiting" /\ waiter[a].wake > now
    /\ \E a \in Agents : waiter[a].st = "waiting"
    /\ now' = now + 1
    /\ UNCHANGED <<consensusVars, pipeVars, sendVars, agentVars, lateVars>>
    /\ UNCHANGED <<phase_no, opc, task_ids, results, waiter, queue, store, worker,
                   posted>>

PhaseIdle ==
    /\ now = 0
    /\ phase_no = 1
    /\ opc = "idle"
    /\ task_ids = <<>>
    /\ results = <<>>
    /\ waiter = [a \in Agents |-> IdleWaiter]
    /\ queue = [n \in {QueueName(a) : a \in Agents} |-> <<>>]
    /\ store = {}
    /\ worker = [a \in Agents |-> IdleWorker]
    /\ posted = {}

PipeIdle ==
    /\ cs_pc = "idle"
    /\ phases = <<>>
    /\ implementation_results = <<>>
    /\ final_result = NoResult

ConsensusIdle ==
    /\ evaluation_results = <<>>
    /\ solution_results = <<>>
    /\ consensus = NoResult
    /\ fallback_used = FALSE
    /\ cpc = "idle"

SendIdle ==
    /\ session_id = SessionId
    /\ sent = <<>>

ValidateIdle ==
    /\ solution_record = NoResult
    /\ activity_log = <<>>
    /\ vpc = "idle"

ParseIdle ==
    /\ response = <<>>
    /\ embedded = <<>>
    /\ json_str = <<>>
    /\ ppc = "idle"

EvalIdle ==
    /\ all_solutions = <<>>
    /\ loaded = NoResult
    /\ evaluation_record = NoResult
    /\ epc = "idle"

AgentIdle ==
    /\ ValidateIdle
    /\ ParseIdle
    /\ EvalIdle

FlowIdle ==
    /\ all_results = <<>>
    /\ task_data = NoResult
    /\ agent_call = NoResult
    /\ dpc = [phase |-> "none", at |-> "idle"]

CallIdle ==
    /\ max_retries = 0
    /\ attempt = 0
    /\ slept = <<>>
    /\ replies = <<>>
    /\ lpc = "idle"

PoolIdle ==
    /\ shared_queue = <<>>
    /\ pool = <<>>
    /\ pool_log = <<>>

ClockIdle == timed = {}

LateIdle ==
    /\ FlowIdle
    /\ CallIdle
    /\ PoolIdle
    /\ ClockIdle

\* run_parallel_phase is entered for the first phase with empty queues, or
\* for the second phase TimeoutTicks later, when the waits for `stale` agents
\* timed out in the first phase and their tasks are still in their queues
InitPhase ==
    /\ LateIdle
    /\ SendIdle
    /\ AgentIdle
    /\ ConsensusIdle
    /\ PipeIdle
    /\ \E stale \in SUBSET Agents :
          /\ Cardinality(stale) <= MaxStale
          /\ phase_no = IF stale = {} THEN 1 ELSE 2
          /\ now = IF stale = {} THEN 0 ELSE TimeoutTicks
          /\ queue = [n \in {QueueName(a) : a \in Agents} |->
                        IF n \in {QueueName(a) : a \in stale}
                        THEN <<JsonDumps(Task(n[2], PhaseNames[1], 0))>>
                        ELSE <<>>]
    /\ opc = "dispatch"
    /\ task_ids = <<>>
    /\ results = <<>>
    /\ waiter = [a \in Agents |-> IdleWaiter]
    /\ store = {}
    /\ worker = [a \in Agents |-> IdleWorker]
    /\ posted = {}

NextPhaseRunner ==
    \/ Dispatch
    \/ \E a \in Agents : Poll(a)
    \/ ReturnResults
    \/ \E w \in Agents : WorkerPop(w)
    \/ \E w \in Agents : WorkerPost(w)
    \/ Tick

SpecPhase == InitPhase /\ [][NextPhaseRunner]_vars

\* the same with a Redis push that may fail
NextDispatch ==
    \/ NextPhaseRunner
    \/ PushRaises

SpecDispatch == InitPhase /\ [][NextDispatch]_vars

----------------------------------------------------------------------------
(* The worker loop on its own *)

\* the number of phases whose tasks are waiting in a queue
MaxQueued == 2

\* redis_agent_worker.py lines 61-63: an exception raised between the pop and
\* the write of the result (json.loads at line 48, lines 67-72 of
\* process_task that precede its try, json.dumps or redis set at line 57) is
\* printed and the loop goes on with the next task
WorkerDrop(w) ==
    /\ worker[w].st = "busy"
    /\ worker' = [worker EXCEPT ![w] = IdleWorker]
    /\ UNCHANGED <<consensusVars, pipeVars, sendVars, agentVars, lateVars>>
    /\ UNCHANGED <<now, phase_no, opc, task_ids, results, waiter, queue, store,
                   posted>>

\* the queue of an agent after send_task_to_agent for the first k phases
RECURSIVE QueueAfter(_, _)
QueueAfter(agent_id, k) ==
    IF k = 0 THEN <<>>
    ELSE LPush(QueueAfter(agent_id, k - 1),
               JsonDumps(Task(agent_id, PhaseNames[k], 0)))

\* the workers start on the tasks that the orchestrator has sent so far and
\* no longer waits for
InitWorker ==
    /\ LateIdle
    /\ SendIdle
    /\ AgentIdle
    /\ ConsensusIdle
    /\ PipeIdle
    /\ now = 0
    /\ phase_no = 1
    /\ opc = "idle"
    /\ task_ids = <<>>
    /\ results = <<>>
    /\ waiter = [a \in Agents |-> IdleWaiter]
    /\ \E k \in [Agents -> 0..MaxQueued] :
          queue = [n \in {QueueName(a) : a \in Agents} |-> QueueAfter(n[2], k[n[2]])]
    /\ store = {}
    /\ worker = [a \in Agents |-> IdleWorker]
    /\ posted = {}

NextWorker ==
    \/ \E w \in Agents : WorkerPop(w)
    \/ \E w \in Agents : WorkerPost(w)
    \/ \E w \in Agents : WorkerDrop(w)

SpecWorker == InitWorker /\ [][NextWorker]_vars

----------------------------------------------------------------------------
(* The call of build_consensus on its own *)

InitConsensus ==
    /\ LateIdle
    /\ SendIdle
    /\ AgentIdle
    /\ \/ evaluation_results \in EvalInputs /\ solution_results \in FewSolInputs
       \/ evaluation_results \in DegenerateEvalInputs /\ solution_results \in SolInputs
       \/ evaluation_results \in NamedEvalInputs /\ solution_results \in SolInputs
    /\ consensus = NoResult
    /\ fallback_used = FALSE
    /\ cpc = "start"
    /\ PhaseIdle
    /\ PipeIdle

BuildConsensus ==
    /\ cpc = "start"
    /\ consensus' = build_consensus(evaluation_results, solution_results)
    /\ fallback_used' =
         UsesFallback(ConsensusScores(AllScores(EvaluationDetails(evaluation_results), <<>>)))
    /\ cpc' = "done"
    /\ UNCHANGED <<phaseVars, pipeVars, sendVars, agentVars, lateVars>>
    /\ UNCHANGED <<evaluation_results, solution_results>>

NextConsensus == BuildConsensus

SpecConsensus == InitConsensus /\ [][NextConsensus]_vars

----------------------------------------------------------------------------
(* collaborative_solve, redis_orchestrator.py lines 345-422 *)

\* a JSON string where a number is expected, e.g. "overall_score": "high"
NotANumber == -1

\* all_results["phases"] keys, lines 367, 377, 388, 398, 404 and 415
PhaseKeys ==
    <<"planning", "analysis", "solutions", "evaluations", "consensus",
      "implementations">>

\* what run_parallel_phase returns: one entry per roster agent, each drawn
\* from `records` (written here in roster order)
PhaseResults(records) ==
    {[i \in 1..Len(Roster) |-> <<Roster[i], f[Roster[i]]>>] :
        f \in [Agents -> records]}

\* process_task, redis_agent_worker.py line 88
TaskErrorRecord == [error |-> [msg |-> "Task processing error"]]

\* entries of the plan and analyze phases: a timeout, an error, a result
ContextRecords ==
    {TimeoutRecord, TaskErrorRecord, [confidence |-> DefaultConfidence]}

\* entries of the solve phase
PipeSolutions ==
    {TimeoutRecord, TaskErrorRecord} \cup {[confidence |-> c] : c \in {1, MaxScore}}

\* entries of the evaluate phase: enhanced_evaluate_solutions lines 462-483
\* hands on the overall_score of the model's answer as it is, number or not
PipeEvaluations ==
    {TimeoutRecord, TaskErrorRecord}
    \cup {[detailed_evaluations |-> <<[agent_id |-> Roster[1], overall_score |-> v]>>,
           confidence |-> DefaultConfidence] : v \in {MaxScore, NotANumber}}

\* entries of the implement phase
PipeImplementations ==
    {TimeoutRecord, TaskErrorRecord} \cup {[confidence |-> c] : c \in {0, MaxScore}}

\* line 230: sum(scores) raises TypeError when a collected score is no number
ConsensusRaises(evals) ==
    LET all_scores == AllScores(EvaluationDetails(evals), <<>>) IN
    \E i \in 1..Len(all_scores) :
        \E j \in 1..Len(all_scores[i][2]) : all_scores[i][2][j] = NotANumber

\* select_best_implementation, lines 424-448: the loop of lines 431-441,
\* started with best_score = 0 and with what line 448 returns for None
RECURSIVE MutSelectBestIgnoresError(_, _, _)
MutSelectBestIgnoresError(implementations, best_impl, best_score) ==
    IF implementations = <<>> THEN best_impl
    ELSE LET agent_id   == Head(implementations)[1]
             impl       == Head(implementations)[2]
             confidence == IF "confidence" \in DOMAIN impl THEN impl.confidence ELSE 0
         IN  IF confidence > best_score
             THEN MutSelectBestIgnoresError(Tail(implementations),
                             [agent_id |-> agent_id, implementation |-> impl,
                              confidence |-> confidence],
                             confidence)
             ELSE MutSelectBestIgnoresError(Tail(implementations), best_impl, best_score)

RECURSIVE MutSelectBestNonStrict(_, _, _)
MutSelectBestNonStrict(implementations, best_impl, best_score) ==
    IF implementations = <<>> THEN best_impl
    ELSE LET agent_id   == Head(implementations)[1]
             impl       == Head(implementations)[2]
             confidence == IF "confidence" \in DOMAIN impl THEN impl.confidence ELSE 0
         IN  IF "error" \notin DOMAIN impl /\ confidence >= best_score
             THEN MutSelectBestNonStrict(Tail(implementations),
                             [agent_id |-> agent_id, implementation |-> impl,
                              confidence |-> confidence],
                             confidence)
             ELSE MutSelectBestNonStrict(Tail(implementations), best_impl, best_score)

RECURSIVE SelectBest(_, _, _)
SelectBest(implementations, best_impl, best_score) ==
    IF implementations = <<>> THEN best_impl
    ELSE LET agent_id   == Head(implementations)[1]
             impl       == Head(implementations)[2]
             confidence == IF "confidence" \in DOMAIN impl THEN impl.confidence ELSE 0
         IN  IF "error" \notin DOMAIN impl /\ confidence > best_score
             THEN SelectBest(Tail(implementations),
                             [agent_id |-> agent_id, implementation |-> impl,
                              confidence |-> confidence],
                             confidence)
             ELSE SelectBest(Tail(implementations), best_impl, best_score)

\* line 448: {"error": "No valid implementations"}
NoValidImplementations == [error |-> [msg |-> "No valid implementations"]]

select_best_implementation(implementations) ==
    SelectBest(implementations, NoValidImplementations, 0)

\* lines 363-367: the plan phase; planning_results only goes into the data of
\* later tasks and into all_results
RunPlan ==
    /\ cs_pc = "plan"
    /\ \E planning_results \in PhaseResults(ContextRecords) :
          phases' = Append(phases, PhaseKeys[1])
    /\ cs_pc' = "analyze"
    /\ UNCHANGED <<phaseVars, sendVars, agentVars, lateVars>>
    /\ UNCHANGED <<consensusVars, implementation_results, final_result>>

\* lines 373-377
RunAnalyze ==
    /\ cs_pc = "analyze"
    /\ \E analysis_results \in PhaseResults(ContextRecords) :
          phases' = Append(phases, PhaseKeys[2])
    /\ cs_pc' = "solve"
    /\ UNCHANGED <<phaseVars, sendVars, agentVars, lateVars>>
    /\ UNCHANGED <<consensusVars, implementation_results, final_result>>

\* lines 383-388
RunSolve ==
    /\ cs_pc = "solve"
    /\ solution_results' \in PhaseResults(PipeSolutions)
    /\ phases' = Append(phases, PhaseKeys[3])
    /\ cs_pc' = "evaluate"
    /\ UNCHANGED <<phaseVars, sendVars, agentVars, lateVars>>
    /\ UNCHANGED <<evaluation_results, consensus, fallback_used, cpc,
                   implementation_results, final_result>>

\* lines 394-398
RunEvaluate ==
    /\ cs_pc = "evaluate"
    /\ evaluation_results' \in PhaseResults(PipeEvaluations)
    /\ phases' = Append(phases, PhaseKeys[4])
    /\ cs_pc' = "consensus"
    /\ UNCHANGED <<phaseVars, sendVars, agentVars, lateVars>>
    /\ UNCHANGED <<solution_results, consensus, fallback_used, cpc,
                   implementation_results, final_result>>

\* lines 403-404: an exception of build_consensus leaves collaborative_solve;
\* evaluation_results is not read again afterwards
RunConsensus ==
    /\ cs_pc = "consensus"
    /\ IF ConsensusRaises(evaluation_results)
       THEN /\ cs_pc' = "aborted"
            /\ UNCHANGED <<consensus, fallback_used, phases, evaluation_results>>
       ELSE /\ consensus' = build_consensus(evaluation_results, solution_results)
            /\ fallback_used' =
                 UsesFallback(ConsensusScores(
                     AllScores(EvaluationDetails(evaluation_results), <<>>)))
            /\ phases' = Append(phases, PhaseKeys[5])
            /\ evaluation_results' = <<>>
            /\ cs_pc' = "implement"
    /\ UNCHANGED <<phaseVars, sendVars, agentVars, lateVars>>
    /\ UNCHANGED <<solution_results, cpc, implementation_results, final_result>>

\* lines 410-415; solution_results is not read again afterwards
RunImplement ==
    /\ cs_pc = "implement"
    /\ implementation_results' \in PhaseResults(PipeImplementations)
    /\ phases' = Append(phases, PhaseKeys[6])
    /\ solution_results' = <<>>
    /\ cs_pc' = "select"
    /\ UNCHANGED <<phaseVars, sendVars, agentVars, lateVars>>
    /\ UNCHANGED <<evaluation_results, consensus, fallback_used, cpc, final_result>>

\* lines 418-422
SelectFinal ==
    /\ cs_pc = "select"
    /\ final_result' = select_best_implementation(implementation_results)
    /\ cs_pc' = "done"
    /\ UNCHANGED <<phaseVars, sendVars, agentVars, lateVars>>
    /\ UNCHANGED <<consensusVars, phases, implementation_results>>

InitPipe ==
    /\ LateIdle
    /\ SendIdle
    /\ AgentIdle
    /\ cs_pc = "plan"
    /\ phases = <<>>
    /\ implementation_results = <<>>
    /\ final_result = NoResult
    /\ ConsensusIdle
    /\ PhaseIdle

NextPipe ==
    \/ RunPlan
    \/ RunAnalyze
    \/ RunSolve
    \/ RunEvaluate
    \/ RunConsensus
    \/ RunImplement
    \/ SelectFinal

SpecPipe == InitPipe /\ [][NextPipe]_vars

----------------------------------------------------------------------------
(* The call of select_best_implementation on its own *)

\* implement_consensus, enhanced_agent.py line 654: the confidence (0.3) of
\* the record posted when the answer cannot be parsed, in tenths
ParseFallbackConfidence == 3

\* entries of implementation_results: a timeout, the parse fallback of
\* implement_consensus (error and confidence), or an implementation with
\* its final confidence
ImplRecords ==
    {TimeoutRecord,
     [confidence |-> ParseFallbackConfidence, error |-> [msg |-> "JSON parse error"]]}
    \cup {[confidence |-> c] : c \in Scores}

\* the orders in which the waits of a phase can complete
CompletionOrders ==
    {p \in [1..Len(Roster) -> Agents] :
        \A i, j \in 1..Len(Roster) : i # j => p[i] # p[j]}

\* what run_parallel_phase returns for the implement phase: one entry per
\* agent, inserted in completion order (line 141)
ImplInputs ==
    {[i \in 1..Len(Roster) |-> <<p[i], f[p[i]]>>] :
        p \in CompletionOrders, f \in [Agents -> ImplRecords]}

InitSelect ==
    /\ LateIdle
    /\ SendIdle
    /\ AgentIdle
    /\ cs_pc = "select"
    /\ phases = PhaseKeys
    /\ implementation_results \in ImplInputs
    /\ final_result = NoResult
    /\ ConsensusIdle
    /\ PhaseIdle

NextSelect == SelectFinal

SpecSelect == InitSelect /\ [][NextSelect]_vars

----------------------------------------------------------------------------
(* Claims about run_parallel_phase and collaborative_solve *)

IsTimeout(a) == Lookup(results, a) = TimeoutResult(Lookup(task_ids, a))

PostedFor(a) == {p \in posted : p.task_id = Lookup(task_ids, a)}

\* C1: the mapping returned by run_parallel_phase has exactly the roster as
\* its key set, and every agent's entry is a result that agent's worker
\* posted or an error entry.
C1_RosterComplete ==
    opc = "returned" =>
        /\ KeySet(results) = Agents
        /\ Len(results) = Len(Roster)
        /\ \A a \in Agents :
              \/ "error" \in DOMAIN Lookup(results, a)
              \/ \E p \in posted :
                    p.task_id.agent = a /\ p.record = Lookup(results, a)

\* a phase that returns a timeout, a worker's error and a sound result
C1_Witness ==
    /\ opc = "returned"
    /\ \E a, b, c \in Agents :
          /\ IsTimeout(a)
          /\ "error" \in DOMAIN Lookup(results, b) /\ ~IsTimeout(b)
          /\ "error" \notin DOMAIN Lookup(results, c)

\* C2: when three agents post an error-free result before their deadline and
\* the fourth never posts, the phase returns 4 entries, the three posted
\* results and a Timeout for the silent agent only, no later than the expiry
\* of the timeout plus one poll interval.
C2_PerAgentIsolation ==
    opc = "returned" =>
        \A s \in Agents :
            (/\ PostedFor(s) = {}
             /\ \A a \in Agents \ {s} :
                   \E p \in PostedFor(a) : p.in_time /\ "error" \notin DOMAIN p.record)
            =>
            /\ Len(results) = Len(Roster)
            /\ IsTimeout(s)
            /\ \A a \in Agents \ {s} :
                  \E p \in PostedFor(a) : Lookup(results, a) = p.record
            /\ now <= waiter[s].start + TimeoutTicks + 1

C4_SixPhasesInOrder ==
    /\ cs_pc # "aborted"
    /\ Len(phases) <= Len(PhaseKeys)
    /\ phases = SubSeq(PhaseKeys, 1, Len(phases))
    /\ cs_pc = "done" => (phases = PhaseKeys /\ final_result # NoResult)

\* C5: a failed queue push is fatal to that one task only: run_parallel_phase
\* is never left by the exception of the push.
C5_DispatchFailureIsolated == opc # "raised"

----------------------------------------------------------------------------
(* What the claims about build_consensus speak of, read off the inputs *)

\* positions <<i, j>> of the items of evaluators whose entry has no error
ItemPositions ==
    {p \in (1..Len(evaluation_results)) \X (1..MaxItems) :
        LET e == evaluation_results[p[1]][2] IN
        /\ "error" \notin DOMAIN e
        /\ "detailed_evaluations" \in DOMAIN e
        /\ p[2] <= Len(e.detailed_evaluations)}

ItemAt(p) == evaluation_results[p[1]][2].detailed_evaluations[p[2]]

\* the positions at which agent a is scored
PositionsOf(a) ==
    {p \in ItemPositions : "agent_id" \in DOMAIN ItemAt(p) /\ ItemAt(p).agent_id = a}

EvaluatedAgents ==
    {ItemAt(p).agent_id : p \in {q \in ItemPositions : "agent_id" \in DOMAIN ItemAt(q)}}

\* the overall_score collected at a position (0 stands in for a missing one)
CollectedScore(p) ==
    IF "overall_score" \in DOMAIN ItemAt(p) THEN ItemAt(p).overall_score ELSE 0

RECURSIVE SumCollected(_)
SumCollected(P) ==
    IF P = {} THEN 0
    ELSE LET p == CHOOSE q \in P : TRUE IN CollectedScore(p) + SumCollected(P \ {p})

MeanOf(a) == Frac(SumCollected(PositionsOf(a)), Cardinality(PositionsOf(a)))

RosterIndex(a) == CHOOSE i \in 1..Len(Roster) : Roster[i] = a

\* the keys of d whose value is maximal
MaxKeys(d) ==
    {d[i][1] : i \in {k \in 1..Len(d) :
                        \A j \in 1..Len(d) : ~FracLess(d[k][2], d[j][2])}}

\* the evaluators' entries that carry no error, in dict order
RECURSIVE WithoutErrors(_)
WithoutErrors(d) ==
    IF d = <<>> THEN <<>>
    ELSE (IF "error" \in DOMAIN Head(d)[2] THEN <<>> ELSE <<Head(d)>>)
         \o WithoutErrors(Tail(d))

----------------------------------------------------------------------------
(* Claims about build_consensus *)

\* C6: the consensus score of every evaluated agent is the arithmetic mean of
\* all overall_score values collected for it from the detailed evaluations of
\* the error-free evaluators, and no other agent has a consensus score.
C6_ConsensusIsMean ==
    cpc = "done" =>
        /\ KeySet(consensus.consensus_scores) = EvaluatedAgents
        /\ \A a \in EvaluatedAgents :
              Lookup(consensus.consensus_scores, a) = MeanOf(a)

\* two evaluators scoring {a:2, b:1} and {a:1, b:0} give {a:3/2, b:1/2}, best a
C6_Witness ==
    /\ cpc = "done"
    /\ evaluation_results =
         <<<<Roster[1], [detailed_evaluations |->
                <<[agent_id |-> Roster[1], overall_score |-> 2],
                  [agent_id |-> Roster[2], overall_score |-> 1]>>]>>,
           <<Roster[2], [detailed_evaluations |->
                <<[agent_id |-> Roster[1], overall_score |-> 1],
                  [agent_id |-> Roster[2], overall_score |-> 0]>>]>>>>
    /\ consensus.consensus_scores =
         <<<<Roster[1], [num |-> 3, den |-> 2]>>, <<Roster[2], [num |-> 1, den |-> 2]>>>>
    /\ consensus.best_agent = Roster[1]

\* C7: when the evaluation-based ranking is used, best_agent has the maximal
\* consensus score and, among the agents sharing it, is the one declared
\* first in the roster.
C7_TieBrokenByRoster ==
    (cpc = "done" /\ ~fallback_used) =>
        /\ consensus.best_agent \in MaxKeys(consensus.consensus_scores)
        /\ \A k \in MaxKeys(consensus.consensus_scores) :
              RosterIndex(consensus.best_agent) <= RosterIndex(k)

\* C8: the fallback is taken if and only if no score was collected or every
\* consensus score is exactly zero; the ranking decides best_agent otherwise.
C8_FallbackIff ==
    cpc = "done" =>
        /\ fallback_used <=>
              \/ EvaluatedAgents = {}
              \/ \A a \in EvaluatedAgents : MeanOf(a).num = 0
        /\ ~fallback_used => consensus.best_agent \in MaxKeys(consensus.consensus_scores)
        /\ fallback_used =>
              consensus.best_agent \in
                  {solution_results[i][1] :
                     i \in {k \in 1..Len(solution_results) :
                              "confidence" \in DOMAIN solution_results[k][2]}}
                  \cup {DefaultBestAgent}

\* one evaluator reports all zeros, another a nonzero score: no fallback
C8_Witness ==
    /\ cpc = "done"
    /\ ~fallback_used
    /\ \E i, j \in 1..Len(evaluation_results) :
          LET e == evaluation_results[i][2]
              f == evaluation_results[j][2]
          IN  /\ "error" \notin DOMAIN e /\ "detailed_evaluations" \in DOMAIN e
              /\ Len(e.detailed_evaluations) = 2
              /\ \A k \in 1..2 :
                    /\ DOMAIN e.detailed_evaluations[k] = {"agent_id", "overall_score"}
                    /\ e.detailed_evaluations[k].overall_score = 0
              /\ "error" \notin DOMAIN f /\ "detailed_evaluations" \in DOMAIN f
              /\ \E k \in 1..Len(f.detailed_evaluations) :
                    /\ DOMAIN f.detailed_evaluations[k] = {"agent_id", "overall_score"}
                    /\ f.detailed_evaluations[k].overall_score > 0

\* C9: in the fallback branch best_agent reports the highest solution-phase
\* confidence, and is agent_a when no solution entry reports a confidence.
C9_FallbackBest ==
    (cpc = "done" /\ fallback_used) =>
        LET reporting == {i \in 1..Len(solution_results) :
                            "confidence" \in DOMAIN solution_results[i][2]}
        IN  IF reporting = {}
            THEN consensus.best_agent = "agent_a"
            ELSE \E i \in reporting :
                    /\ consensus.best_agent = solution_results[i][1]
                    /\ \A j \in reporting :
                          solution_results[j][2].confidence
                              <= solution_results[i][2].confidence

\* every evaluated agent scored 0, solution confidences {a:1, b:2}: b is chosen
C9_Witness ==
    /\ cpc = "done"
    /\ fallback_used
    /\ EvaluatedAgents # {}
    /\ \A p \in ItemPositions :
          /\ DOMAIN ItemAt(p) = {"agent_id", "overall_score"}
          /\ ItemAt(p).overall_score = 0
    /\ solution_results =
         <<<<Roster[1], [confidence |-> 1]>>, <<Roster[2], [confidence |-> 2]>>>>
    /\ consensus.best_agent = Roster[2]

\* C10: the evaluators whose entry carries an error contribute nothing:
\* consensus_scores, confidence and evaluation_details are what the
\* error-free entries alone give, and total_evaluators counts only those.
C10_FailedEvaluatorsExcluded ==
    cpc = "done" =>
        LET ok   == WithoutErrors(evaluation_results)
            rest == build_consensus(ok, solution_results)
        IN  /\ consensus.total_evaluators = Len(ok)
            /\ \A k \in 1..Len(consensus.evaluation_details) :
                  \E i \in 1..Len(ok) :
                      consensus.evaluation_details[k].evaluator = ok[i][1]
            /\ Len(consensus.evaluation_details) = Cardinality(ItemPositions)
            /\ consensus.consensus_scores = rest.consensus_scores
            /\ consensus.confidence = rest.confidence
            /\ consensus.evaluation_details = rest.evaluation_details

\* the evaluators whose entry has no error and reports a confidence
Reporting ==
    {i \in 1..Len(evaluation_results) :
        /\ "error" \notin DOMAIN evaluation_results[i][2]
        /\ "confidence" \in DOMAIN evaluation_results[i][2]}

RECURSIVE SumConfidence(_)
SumConfidence(I) ==
    IF I = {} THEN 0
    ELSE LET i == CHOOSE j \in I : TRUE IN
         evaluation_results[i][2].confidence + SumConfidence(I \ {i})

\* a failed evaluator that carries scores and a confidence, beside a sound one
C10_Witness ==
    /\ cpc = "done"
    /\ ~fallback_used
    /\ consensus.consensus_scores # <<>>
    /\ consensus.total_evaluators = 1
    /\ \E i \in 1..Len(evaluation_results) :
          LET e == evaluation_results[i][2] IN
          /\ "error" \in DOMAIN e
          /\ "confidence" \in DOMAIN e
          /\ "detailed_evaluations" \in DOMAIN e
          /\ e.detailed_evaluations # <<>>

\* C11: the confidence of the consensus is the mean of the top-level
\* confidence values of the error-free evaluators that report one, whatever
\* scores their items carry, and 0.5 when none reports a confidence.
C11_ConfidenceIsMean ==
    cpc = "done" =>
        consensus.confidence =
            IF Reporting = {}
            THEN Frac(DefaultConfidence, 1)
            ELSE Frac(SumConfidence(Reporting), Cardinality(Reporting))

\* two sound evaluators report the confidences 1 and 2 beside a score of
\* another value: the confidence is 3/2
C11_Witness ==
    /\ cpc = "done"
    /\ Cardinality(Reporting) = 2
    /\ consensus.confidence = [num |-> 3, den |-> 2]
    /\ \E i \in Reporting :
          LET e == evaluation_results[i][2] IN
          /\ "detailed_evaluations" \in DOMAIN e
          /\ e.detailed_evaluations # <<>>
          /\ e.detailed_evaluations[1].overall_score # e.confidence

----------------------------------------------------------------------------
(* Claims about select_best_implementation *)

\* the positions of the implementation entries that carry no error
SoundImpls ==
    {i \in 1..Len(implementation_results) :
        "error" \notin DOMAIN implementation_results[i][2]}

\* C12: the final result is an implementation entry without error whose
\* confidence is maximal among the error-free entries, under the key of that
\* entry; an entry that carries an error is never selected.
C12_BestImplementation ==
    cs_pc = "done" =>
        /\ "error" \notin DOMAIN final_result =>
              \E i \in SoundImpls :
                  /\ final_result.agent_id = implementation_results[i][1]
                  /\ final_result.implementation = implementation_results[i][2]
                  /\ final_result.confidence = implementation_results[i][2].confidence
                  /\ \A j \in SoundImpls :
                        implementation_results[j][2].confidence
                            <= final_result.confidence
        /\ (\E i \in SoundImpls : implementation_results[i][2].confidence > 0)
              => "error" \notin DOMAIN final_result

\* an entry with an error and a higher confidence comes first and is passed over
C12_Witness ==
    /\ cs_pc = "done"
    /\ "error" \notin DOMAIN final_result
    /\ "confidence" \in DOMAIN implementation_results[1][2]
    /\ "error" \in DOMAIN implementation_results[1][2]
    /\ implementation_results[1][2].confidence > final_result.confidence
    /\ final_result.agent_id = implementation_results[Len(Roster)][1]

\* C13: among the error-free entries that tie on the highest confidence the
\* final result is that of the agent declared first in the roster, whatever
\* the order in which the results were collected.
C13_ImplTieBrokenByRoster ==
    (cs_pc = "done" /\ "error" \notin DOMAIN final_result) =>
        \A j \in SoundImpls :
            implementation_results[j][2].confidence = final_result.confidence
                => RosterIndex(final_result.agent_id)
                       <= RosterIndex(implementation_results[j][1])

\* C14: the final result is the marker "No valid implementations" if and
\* only if every implementation entry carries an error or has confidence
\* zero, and the marker names no agent and no implementation.
C14_NoValidResultIff ==
    cs_pc = "done" =>
        /\ final_result = NoValidImplementations
              <=> \A i \in 1..Len(implementation_results) :
                      \/ "error" \in DOMAIN implementation_results[i][2]
                      \/ implementation_results[i][2].confidence = 0
        /\ "error" \in DOMAIN final_result =>
              DOMAIN final_result = {"error"}

\* the marker is returned although one entry has no error (confidence 0) and
\* another reports a confidence beside its error
C14_Witness ==
    /\ cs_pc = "done"
    /\ final_result = NoValidImplementations
    /\ \E i \in SoundImpls : implementation_results[i][2].confidence = 0
    /\ \E i \in 1..Len(implementation_results) :
          /\ "error" \in DOMAIN implementation_results[i][2]
          /\ "confidence" \in DOMAIN implementation_results[i][2]

----------------------------------------------------------------------------
(* Claims about the queues and the result store *)

PhaseIndex(phase) == CHOOSE i \in 1..Len(PhaseNames) : PhaseNames[i] = phase

\* C15: a worker pops from the queue of its own agent id only, and what it
\* pops is the task that was pushed first among those in the queue (tasks
\* are pushed phase after phase); no other queue changes.
C15_QueueIsFifo ==
    [][\A w \in Agents :
          (worker[w].st = "idle" /\ worker'[w].st = "busy") =>
              LET q == queue[<<"agent_tasks", w>>]
                  t == worker'[w].task
              IN  /\ t.agent_id = w
                  /\ \E i \in 1..Len(q) : JsonLoads(q[i]) = t
                  /\ \A i \in 1..Len(q) :
                        PhaseIndex(t.phase) <= PhaseIndex(JsonLoads(q[i]).phase)
                  /\ Len(queue'[<<"agent_tasks", w>>]) = Len(q) - 1
                  /\ \A a \in Agents \ {w} :
                        queue'[<<"agent_tasks", a>>] = queue[<<"agent_tasks", a>>]]_vars

\* a worker has answered the task of the previous phase and now holds the
\* task of this phase, which was pushed behind it
C15_Witness ==
    \E w \in Agents :
        /\ worker[w].st = "busy"
        /\ worker[w].task.phase = Phase
        /\ \E p \in posted : p.task_id.agent = w /\ p.task_id.phase # Phase

\* C16: when a wait returns a result, the returned value is the stored one
\* and its key is gone from the store, every other key being untouched; when
\* it returns the Timeout the store is unchanged.
C16_ConsumeOnce ==
    [][\A a \in Agents :
          (waiter[a].st = "waiting" /\ waiter'[a].st = "collected") =>
              LET tid == waiter[a].task_id
                  r   == Lookup(results', a)
              IN  IF r = TimeoutResult(tid)
                  THEN store' = store
                  ELSE \E kv \in store :
                          /\ kv[1] = <<"result", tid>>
                          /\ kv[2] = JsonDumps(r)
                          /\ store' = store \ {kv}
                          /\ \A kw \in store' : kw[1] # kv[1]]_vars

\* one result has been consumed and its key is gone, while the late result
\* of an agent that got the Timeout is still stored
C16_Witness ==
    \E a, b \in KeySet(results) :
        /\ "error" \notin DOMAIN Lookup(results, a)
        /\ \A kv \in store : kv[1] # <<"result", Lookup(task_ids, a)>>
        /\ IsTimeout(b)
        /\ \E kv \in store : kv[1] = <<"result", Lookup(task_ids, b)>>

\* C17: an agent's entry is the Timeout only if no result was posted under
\* its task id before the deadline of the wait.
C17_TimeoutOnlyIfNeverPosted ==
    \A a \in KeySet(results) :
        IsTimeout(a) => \A p \in PostedFor(a) : ~p.in_time

\* C18: a result posted when the wait for its task is over, in this phase or
\* in an earlier one, stays in the store as it was posted, with its time to
\* live, and the entry of that task stays the Timeout.
C18_LateResultUntouched ==
    \A p \in posted :
        ~p.in_time =>
            /\ <<<<"result", p.task_id>>, JsonDumps(p.record), ResultTtl>> \in store
            /\ \A a \in KeySet(results) :
                  Lookup(task_ids, a) = p.task_id => IsTimeout(a)

\* the phase has returned; a late result of this phase and one of the
\* previous phase are both in the store
C18_Witness ==
    /\ opc = "returned"
    /\ \E p, q \in posted :
          /\ ~p.in_time /\ p.task_id.phase = Phase
          /\ ~q.in_time /\ q.task_id.phase # Phase
    /\ \E a \in Agents : ~IsTimeout(a)

\* C19: when a worker is done with a task it popped, exactly one result is
\* stored under the key of that task, with the time to live of 3600 s.
C19_WorkerPostsResult ==
    [][\A w \in Agents :
          (worker[w].st = "busy" /\ worker'[w].st = "idle") =>
              LET tid == worker[w].task.task_id IN
              /\ \E kv \in store' : kv[1] = <<"result", tid>> /\ kv[3] = ResultTtl
              /\ Cardinality({p \in posted' : p.task_id = tid}) = 1]_vars

\* C20: a task is never lost: when a worker gives up a task it popped
\* without a result being stored, the task is in its queue again.
C20_TaskNeverLost ==
    [][\A w \in Agents :
          (/\ worker[w].st = "busy"
           /\ worker'[w].st = "idle"
           /\ \A kv \in store' : kv[1] # <<"result", worker[w].task.task_id>>)
          => \E i \in 1..Len(queue'[<<"agent_tasks", w>>]) :
                JsonLoads(queue'[<<"agent_tasks", w>>][i]) = worker[w].task]_vars

----------------------------------------------------------------------------
(* send_task_to_agent called again and again, by one orchestrator after    *)
(* another on the same Redis                                               *)

\* the number of send_task_to_agent calls
MaxSent == 2
\* the wall clock stops here
MaxNow == 2

\* redis_orchestrator.py line 27: str(uuid.uuid4())[:8], the first 8 hex
\* digits of a random uuid; a later draw may repeat an earlier one
SessionIds == {"1f0c9a2e", "7b3d5e44"}

\* line 49 with self.session_id = sid
TaskIdIn(sid, agent_id, phase, t) ==
    [TaskId(agent_id, phase, t) EXCEPT !.session = sid]

\* lines 51-59 with self.session_id = sid
TaskIn(sid, agent_id, phase, t) ==
    [Task(agent_id, phase, t) EXCEPT !.task_id = TaskIdIn(sid, agent_id, phase, t),
                                     !.session_id = sid]

\* RedisMultiAgentOrchestrator.__init__, line 27: a new orchestrator
NewOrchestrator ==
    /\ Len(sent) < MaxSent
    /\ \E sid \in SessionIds : session_id' = sid
    /\ UNCHANGED <<consensusVars, phaseVars, pipeVars, agentVars, lateVars>>
    /\ UNCHANGED sent

\* send_task_to_agent, lines 47-70
Send(agent_id, phase) ==
    /\ Len(sent) < MaxSent
    /\ queue' = [queue EXCEPT ![QueueName(agent_id)] =
                    LPush(@, JsonDumps(TaskIn(session_id, agent_id, phase, now)))]
    /\ sent' = Append(sent, TaskIdIn(session_id, agent_id, phase, now))
    /\ UNCHANGED <<consensusVars, pipeVars, agentVars, lateVars>>
    /\ UNCHANGED <<now, phase_no, opc, task_ids, results, waiter, store, worker,
                   posted, session_id>>

\* time passes between two calls
SendTick ==
    /\ now < MaxNow
    /\ now' = now + 1
    /\ UNCHANGED <<consensusVars, pipeVars, sendVars, agentVars, lateVars>>
    /\ UNCHANGED <<phase_no, opc, task_ids, results, waiter, queue, store, worker,
                   posted>>

InitSend ==
    /\ LateIdle
    /\ ConsensusIdle
    /\ PhaseIdle
    /\ PipeIdle
    /\ AgentIdle
    /\ session_id \in SessionIds
    /\ sent = <<>>

NextSend ==
    \/ NewOrchestrator
    \/ \E agent_id \in Agents, k \in DOMAIN PhaseNames : Send(agent_id, PhaseNames[k])
    \/ SendTick

SpecSend == InitSend /\ [][NextSend]_vars

\* C21: every task dispatched by send_task_to_agent gets a task_id that
\* differs from the task_id of every other dispatched task, across agents,
\* phases, repeated dispatches and sessions
C21_TaskIdsUnique ==
    \A i, j \in DOMAIN sent : i # j => sent[i] # sent[j]

----------------------------------------------------------------------------
(* JSON values as json.loads returns them.  Every value is a record with   *)
(* one field that names its Python type: str, list, dict (a function from  *)
(* keys to values), bool, null (None), num (an int or float, in tenths) or *)
(* nan (the float that json.loads returns for the literal NaN).            *)

JStr(t) == [str |-> t]
JNum(n) == [num |-> n]
JNaN == [nan |-> TRUE]
JBool(b) == [bool |-> b]
JNull == [null |-> TRUE]
JList(l) == [list |-> l]
JDict(d) == [dict |-> d]

\* isinstance(v, dict), isinstance(v, list)
IsDict(v) == "dict" \in DOMAIN v
IsList(v) == "list" \in DOMAIN v

\* isinstance(v, (int, float)): bool is a subclass of int, nan is a float
IsIntOrFloat(v) ==
    "num" \in DOMAIN v \/ "nan" \in DOMAIN v \/ "bool" \in DOMAIN v

\* v < n and v > n for an int or float v and a number n in tenths: every
\* comparison with nan is False, True counts as 1 and False as 0
NumLess(v, n) ==
    IF "num" \in DOMAIN v THEN v.num < n
    ELSE IF "bool" \in DOMAIN v THEN (IF v.bool THEN 10 ELSE 0) < n
    ELSE FALSE

NumGreater(v, n) ==
    IF "num" \in DOMAIN v THEN v.num > n
    ELSE IF "bool" \in DOMAIN v THEN (IF v.bool THEN 10 ELSE 0) > n
    ELSE FALSE

\* d[k] = v on a dict
SetItem(d, k, v) == [x \in DOMAIN d \cup {k} |-> IF x = k THEN v ELSE d[x]]

\* del d[k]
DelItem(d, k) == [x \in DOMAIN d \ {k} |-> d[x]]

EmptyDict == [x \in {} |-> JNull]

----------------------------------------------------------------------------
(* validate_solution_fields, enhanced_agent.py lines 78-123 *)

\* self.agent_id of the agent that validates
SelfAgentId == "agent_a"

\* lines 81-94, in the order of the dict literal
required_fields ==
    << <<"solution_overview", JStr("Solution generated")>>,
       <<"research_phase", JList(<<>>)>>,
       <<"development_phase", JList(<<>>)>>,
       <<"files_created", JList(<<>>)>>,
       <<"detailed_implementation", JStr("Implementation details")>>,
       <<"code_examples", JList(<<>>)>>,
       <<"testing_approach", JStr("Testing approach")>>,
       <<"advantages", JList(<<>>)>>,
       <<"limitations", JList(<<>>)>>,
       <<"confidence", JNum(5)>>,
       <<"agent_id", JStr(SelfAgentId)>>,
       <<"phase", JStr("solution")>> >>

\* lines 116-117
list_fields ==
    <<"research_phase", "development_phase", "files_created", "code_examples",
      "advantages", "limitations">>

\* log_activity(activity, data), agent_base.py lines 242-253 (the timestamp
\* is left out)
LogActivity(log, activity, data) ==
    Append(log, [activity |-> activity, data |-> data])

\* lines 97-103 for required_fields[i..]; st is the pair of the dict and the
\* log written so far
MutAddsNoOverview(field, sol) == field \notin DOMAIN sol /\ field # "solution_overview"
MutFieldAlwaysMissing(field, sol) == TRUE
FieldMissing(field, sol) == field \notin DOMAIN sol

RECURSIVE AddMissingFields(_, _)
AddMissingFields(st, i) ==
    IF i > Len(required_fields) THEN st
    ELSE LET field == required_fields[i][1]
             default_value == required_fields[i][2]
         IN  AddMissingFields(
                 IF FieldMissing(field, st.sol)
                 THEN [sol |-> SetItem(st.sol, field, default_value),
                       log |-> LogActivity(st.log, "solution_field_added",
                                   [field |-> field, default_value |-> default_value])]
                 ELSE st,
                 i + 1)

\* line 108
ConfidenceInvalid(confidence) ==
    ~IsIntOrFloat(confidence) \/ NumLess(confidence, 0) \/ NumGreater(confidence, 10)

\* lines 106-113
FixConfidence(st) ==
    IF "confidence" \in DOMAIN st.sol /\ ConfidenceInvalid(st.sol["confidence"])
    THEN [sol |-> SetItem(st.sol, "confidence", JNum(5)),
          log |-> LogActivity(st.log, "solution_confidence_fixed",
                      [original |-> st.sol["confidence"], fixed |-> JNum(5)])]
    ELSE st

\* lines 118-121 for list_fields[i..]
ListFieldInvalid(field, sol) == field \in DOMAIN sol /\ ~IsList(sol[field])

RECURSIVE FixListFields(_, _)
FixListFields(st, i) ==
    IF i > Len(list_fields) THEN st
    ELSE LET field == list_fields[i]
         IN  FixListFields(
                 IF ListFieldInvalid(field, st.sol)
                 THEN [sol |-> SetItem(st.sol, field, JList(<<>>)),
                       log |-> LogActivity(st.log, "solution_list_field_fixed",
                                   [field |-> field])]
                 ELSE st,
                 i + 1)

\* lines 78-123 on a dict: the dict returned and the log after the call
validate_solution_fields(sol, log) ==
    FixListFields(FixConfidence(AddMissingFields([sol |-> sol, log |-> log], 1)), 1)

----------------------------------------------------------------------------
(* solution_phase lines 302-305 and 322-337: the parsed response, or the   *)
(* fallback record, goes through validate_solution_fields; the record      *)
(* returned is validated once more                                         *)

\* the number of fields in which a parsed response departs from a complete
\* solution, from a solution with values of the wrong kinds or from the
\* empty record
MaxAltered == 1

\* what a response may hold in a field
JsonValues ==
    {JStr("text"), JNum(-1), JNum(0), JNum(7), JNum(10), JNum(11), JNaN,
     JBool(TRUE), JNull, JList(<<>>), JList(<<"item">>), JDict(EmptyDict)}

\* a response that follows the prompt of lines 225-280
CompleteSolution ==
    [f \in {required_fields[i][1] : i \in 1..10} |->
        IF \E k \in DOMAIN list_fields : list_fields[k] = f THEN JList(<<"item">>)
        ELSE IF f = "confidence" THEN JNum(8)
        ELSE JStr("text")]

\* a response with a number for a text, texts and null for lists and a
\* confidence above 1
MessySolution ==
    [f \in {"solution_overview", "research_phase", "limitations", "confidence"} |->
        IF f = "solution_overview" THEN JNum(7)
        ELSE IF f = "research_phase" THEN JStr("text")
        ELSE IF f = "limitations" THEN JNull
        ELSE JNum(11)]

\* lines 322-333
fallback_solution ==
    [f \in {"solution_overview", "code_examples", "detailed_implementation", "error"} |->
        IF f = "code_examples" THEN JList(<<"item">>) ELSE JStr("text")]

SolutionFields == {required_fields[i][1] : i \in DOMAIN required_fields}

\* the dicts that differ from a dict of S in at most n fields
RECURSIVE Altered(_, _)
Altered(S, n) ==
    IF n = 0 THEN S
    ELSE Altered(S \cup {SetItem(d, f, v) : d \in S, f \in SolutionFields, v \in JsonValues}
                   \cup {DelItem(d, f) : d \in S, f \in SolutionFields},
                 n - 1)

\* json.loads of the text extracted from the response: an object, or
\* another JSON value when the response is no object
ParsedSolutions ==
    {JDict(d) : d \in Altered({CompleteSolution, MessySolution, EmptyDict}, MaxAltered)}
        \cup {JList(<<>>), JNull, JNum(7), JStr("text")}

\* lines 305 and 336, and the same call on the record returned; on a value
\* that is no dict, line 98 or 99 raises TypeError
ValidateSolution ==
    /\ vpc \in {"parsed", "fallback", "validated"}
    /\ IF IsDict(solution_record)
       THEN LET st == validate_solution_fields(solution_record.dict, activity_log)
            IN  /\ solution_record' = JDict(st.sol)
                /\ activity_log' = st.log
                /\ vpc' = IF vpc = "validated" THEN "revalidated" ELSE "validated"
       ELSE /\ vpc' = "raised"
            /\ UNCHANGED <<solution_record, activity_log>>
    /\ UNCHANGED <<consensusVars, phaseVars, pipeVars, sendVars, lateVars>>
    /\ UNCHANGED <<parseVars, evalVars>>

InitValidate ==
    /\ LateIdle
    /\ ConsensusIdle
    /\ PhaseIdle
    /\ PipeIdle
    /\ SendIdle
    /\ \/ vpc = "parsed" /\ solution_record \in ParsedSolutions
       \/ vpc = "fallback" /\ solution_record = JDict(fallback_solution)
    /\ activity_log = <<>>
    /\ ParseIdle
    /\ EvalIdle

NextValidate == ValidateSolution

SpecValidate == InitValidate /\ [][NextValidate]_vars

\* C22: validate_solution_fields does not fail on a record, however partial
\* or malformed, the fallback record included, and returns a record in which
\* every required solution field is present
C22_ValidationTotal ==
    /\ IsDict(solution_record) => vpc # "raised"
    /\ vpc \in {"validated", "revalidated"} =>
          /\ IsDict(solution_record)
          /\ \A i \in DOMAIN required_fields :
                required_fields[i][1] \in DOMAIN solution_record.dict

\* a partial record and the fallback record have been validated
C22_Witness ==
    /\ vpc = "validated"
    /\ "error" \in DOMAIN solution_record.dict
    /\ \E i \in DOMAIN activity_log :
          /\ activity_log[i].activity = "solution_field_added"
          /\ activity_log[i].data.field = "testing_approach"

\* C23: validate_solution_fields is idempotent: applied to a record it has
\* returned, it returns the same record and substitutes (logs) nothing more
C23_ValidationIdempotent ==
    [][vpc = "validated" =>
          /\ solution_record' = solution_record
          /\ activity_log' = activity_log]_vars

\* a record in which the first call replaced something was validated again
C23_Witness ==
    /\ vpc = "revalidated"
    /\ \E i \in DOMAIN activity_log :
          activity_log[i].activity = "solution_list_field_fixed"
    /\ \E i \in DOMAIN activity_log :
          activity_log[i].activity = "solution_confidence_fixed"

\* the Python type of a JSON value
KindOf(v) == CHOOSE k \in DOMAIN v : TRUE

\* C24: after validate_solution_fields every declared field has the kind of
\* its declaration (text where the default is text, a list where it is a
\* list; the kind and range of confidence are C25): a present field of
\* another kind has been replaced by the default
C24_DeclaredKinds ==
    vpc \in {"validated", "revalidated"} =>
        \A i \in DOMAIN required_fields :
            LET field == required_fields[i][1]
                default_value == required_fields[i][2]
            IN  field # "confidence" =>
                    KindOf(solution_record.dict[field]) = KindOf(default_value)

\* C25: after validate_solution_fields confidence is a number in [0,1]: a
\* confidence below 0, above 1 or of non-numeric kind, and a missing one,
\* has become 0.5 and a confidence in [0,1] is unchanged
C25_ConfidenceInRange ==
    [][(vpc \in {"parsed", "fallback"} /\ IsDict(solution_record)) =>
          LET before == solution_record.dict
              after == solution_record'.dict["confidence"]
              InRange(v) == "num" \in DOMAIN v /\ v.num >= 0 /\ v.num <= 10
          IN  /\ InRange(after)
              /\ after = IF "confidence" \in DOMAIN before
                            /\ InRange(before["confidence"])
                         THEN before["confidence"]
                         ELSE JNum(5)]_vars

----------------------------------------------------------------------------
(* Text as a sequence of tokens: "{" and "}", a word "t", the word "json", *)
(* the whitespace " " and "\n", the fence of three backquotes and the tags  *)
(* "<think>", "</think>" and "<tool_call>".  The code looks at the text    *)
(* only through these substrings, through whitespace and through positions.*)

\* the three backquotes that open and close a markdown code block
Fence == "fence"

\* str.strip() removes these
IsSpace(c) == c \in {" ", "\n"}

\* `c in s`
Contains(s, c) == \E i \in DOMAIN s : s[i] = c

\* s.find(c) and s.rfind(c), positions counted from 1: 0 when c is not in s
Find(s, c) ==
    IF Contains(s, c) THEN CHOOSE i \in DOMAIN s : s[i] = c /\ \A j \in 1..(i - 1) : s[j] # c
    ELSE 0

RFind(s, c) ==
    IF Contains(s, c)
    THEN CHOOSE i \in DOMAIN s : s[i] = c /\ \A j \in (i + 1)..Len(s) : s[j] # c
    ELSE 0

\* s.startswith(prefix), s.endswith(suffix)
StartsWith(s, prefix) ==
    Len(s) >= Len(prefix) /\ SubSeq(s, 1, Len(prefix)) = prefix

EndsWith(s, suffix) ==
    Len(s) >= Len(suffix) /\ SubSeq(s, Len(s) - Len(suffix) + 1, Len(s)) = suffix

\* s.strip()
RECURSIVE LStrip(_)
LStrip(s) == IF s # <<>> /\ IsSpace(Head(s)) THEN LStrip(Tail(s)) ELSE s

RECURSIVE RStrip(_)
RStrip(s) ==
    IF s # <<>> /\ IsSpace(s[Len(s)]) THEN RStrip(SubSeq(s, 1, Len(s) - 1)) ELSE s

Strip(s) == RStrip(LStrip(s))

\* what re.search returns: None, or a match with its group(1)
NoMatch == [matched |-> FALSE, group |-> <<>>]
Match(group) == [matched |-> TRUE, group |-> group]

\* re.search of the pattern of line 42 (a "{", anything, a "}") in s: from
\* the first "{" to the last "}" of s
SearchBraces(s) ==
    IF Find(s, "{") > 0 /\ RFind(s, "}") > Find(s, "{")
    THEN Match(SubSeq(s, Find(s, "{"), RFind(s, "}")))
    ELSE NoMatch

\* where '{' must stand for the tag at position p to match: right after the
\* tag, or after the whitespace that follows it when the pattern allows it
RECURSIVE SkipSpace(_, _)
SkipSpace(s, q) ==
    IF q <= Len(s) /\ IsSpace(s[q]) THEN SkipSpace(s, q + 1) ELSE q

BraceAfterTag(s, p, spaces) == IF spaces THEN SkipSpace(s, p + 1) ELSE p + 1

\* the positions of the tag from which the pattern of line 29 (the tag,
\* whitespace, a "{", anything, a "}") or of line 34 (no whitespace) matches
TagMatches(s, tag, spaces) ==
    {p \in DOMAIN s :
        /\ s[p] = tag
        /\ LET q == BraceAfterTag(s, p, spaces)
           IN  q <= Len(s) /\ s[q] = "{" /\ RFind(s, "}") > q}

\* re.search of that pattern in s: the leftmost match, its group reaching
\* from the "{" to the last "}" of s
SearchAfterTag(s, tag, spaces) ==
    IF TagMatches(s, tag, spaces) = {} THEN NoMatch
    ELSE LET p == CHOOSE x \in TagMatches(s, tag, spaces) :
                      \A y \in TagMatches(s, tag, spaces) : x <= y
         IN  Match(SubSeq(s, BraceAfterTag(s, p, spaces), RFind(s, "}")))

\* enhanced_agent.py lines 49-56: the position of the "}" at which brace_count
\* is back at 0, walking from position i with the count so far; 0 when the
\* loop ends without break
RECURSIVE ClosingBrace(_, _, _)
ClosingBrace(s, i, brace_count) ==
    IF i > Len(s) THEN 0
    ELSE IF s[i] = "{" THEN ClosingBrace(s, i + 1, brace_count + 1)
    ELSE IF s[i] = "}"
         THEN IF brace_count - 1 = 0 THEN i
              ELSE ClosingBrace(s, i + 1, brace_count - 1)
    ELSE ClosingBrace(s, i + 1, brace_count)

\* lines 61-68 (test_json_parser.py lines 28-35)
StripFences(text) ==
    LET a == Strip(text)
        b == IF StartsWith(a, <<Fence, "json">>) THEN SubSeq(a, 3, Len(a)) ELSE a
        c == IF StartsWith(b, <<Fence>>) THEN SubSeq(b, 2, Len(b)) ELSE b
        d == IF EndsWith(c, <<Fence>>) THEN SubSeq(c, 1, Len(c) - 1) ELSE c
    IN  Strip(d)

\* lines 42-58: the branch of a response without "<think>"
FirstObject(resp) ==
    IF SearchBraces(resp).matched
    THEN LET start_idx == Find(resp, "{")
             i == ClosingBrace(resp, start_idx, 0)
         IN  IF i > 0 THEN SubSeq(resp, start_idx, i) ELSE SearchBraces(resp).group
    ELSE resp

\* lines 27-37: the branch of a response with "<think>"
AfterThink(resp) ==
    IF SearchAfterTag(resp, "</think>", TRUE).matched
    THEN SearchAfterTag(resp, "</think>", TRUE).group
    ELSE IF SearchAfterTag(resp, "</think>", FALSE).matched
         THEN SearchAfterTag(resp, "</think>", FALSE).group
         ELSE resp

\* extract_json_from_response, enhanced_agent.py lines 17-76
extract_json_from_response(resp) ==
    StripFences(IF Contains(resp, "<think>") THEN AfterThink(resp)
                ELSE FirstObject(resp))

\* improved_extract_json, test_json_parser.py lines 6-51
FromFirstBrace(a) == IF Find(a, "{") > 1 THEN SubSeq(a, Find(a, "{"), Len(a)) ELSE a

improved_extract_json(resp) ==
    LET tagged ==
            IF Contains(resp, "<tool_call>")
            THEN IF SearchAfterTag(resp, "<tool_call>", TRUE).matched
                 THEN SearchAfterTag(resp, "<tool_call>", TRUE).group
                 ELSE IF SearchAfterTag(resp, "<tool_call>", FALSE).matched
                      THEN SearchAfterTag(resp, "<tool_call>", FALSE).group
                      ELSE resp
            ELSE resp
        a == StripFences(tagged)
        b == FromFirstBrace(a)
        last_brace == RFind(b, "}")
    IN  IF last_brace > 1 /\ last_brace < Len(b) THEN SubSeq(b, 1, last_brace) ELSE b

----------------------------------------------------------------------------
(* The parsers applied to responses built around a record *)

\* how deep the braces of the record nest
MaxNesting == 2

\* the text of a record of the given depth
RECURSIVE RecordText(_)
RecordText(depth) ==
    IF depth = 1 THEN <<"{", "t", "}">>
    ELSE <<"{", "t">> \o RecordText(depth - 1) \o <<"}">>

\* the records a response may hold, and the same cut off before the last "}"
Records == {RecordText(k) : k \in 1..MaxNesting}
TruncatedRecords == {SubSeq(r, 1, Len(r) - 1) : r \in Records}

\* what stands before the record: a reasoning block, prose, an opening fence
ThinkBlocks ==
    {<<>>, <<"<think>", "t", "</think>">>, <<"<think>", "t", "</think>", "\n">>,
     <<"<tool_call>", "\n">>}
LeadingProse == {<<>>, <<"t", " ">>}
FencePairs ==
    {<<<<>>, <<>>>>, <<<<Fence, "json", "\n">>, <<"\n", Fence>>>>,
     <<<<Fence, "\n">>, <<"\n", Fence>>>>}

\* what stands after it: nothing, prose, or commentary with braces of its own
TrailingProse == {<<>>, <<" ", "t">>}
TrailingBraces == {<<" ", "t", " ", "{", "t", "}">>}

Wrap(think, lead, fences, record, trail) ==
    think \o lead \o fences[1] \o record \o fences[2] \o trail

\* the text is a single balanced record
IsBalancedRecord(s) ==
    s # <<>> /\ s[1] = "{" /\ ClosingBrace(s, 1, 0) = Len(s)

\* lines 17-76, with the two log_activity calls of lines 20-24 and 71-74
ExtractJson ==
    /\ ppc = "response"
    /\ json_str' = extract_json_from_response(response)
    /\ activity_log' =
         LogActivity(
             LogActivity(activity_log, "raw_llm_response",
                 [response_length |-> Len(response),
                  has_think_tags |-> Contains(response, "<think>")]),
             "extracted_json",
             [json_length |-> Len(extract_json_from_response(response))])
    /\ ppc' = "extracted"
    /\ UNCHANGED <<consensusVars, phaseVars, pipeVars, sendVars, evalVars, lateVars>>
    /\ UNCHANGED <<solution_record, vpc, response, embedded>>

\* test_json_parser.py lines 76-78: improved_extract_json on the same text
ImprovedExtractJson ==
    /\ ppc = "response"
    /\ json_str' = improved_extract_json(response)
    /\ ppc' = "improved"
    /\ UNCHANGED <<consensusVars, phaseVars, pipeVars, sendVars, evalVars, lateVars>>
    /\ UNCHANGED <<validateVars, response, embedded>>

InitParse ==
    /\ LateIdle
    /\ ConsensusIdle
    /\ PhaseIdle
    /\ PipeIdle
    /\ SendIdle
    /\ ValidateIdle
    /\ EvalIdle
    /\ embedded \in Records \cup TruncatedRecords
    /\ \E think \in ThinkBlocks, lead \in LeadingProse, fences \in FencePairs,
          trail \in TrailingProse \cup TrailingBraces :
          response = Wrap(think, lead, fences, embedded, trail)
    /\ json_str = <<>>
    /\ ppc = "response"

NextParse ==
    \/ ExtractJson
    \/ ImprovedExtractJson

SpecParse == InitParse /\ [][NextParse]_vars

\* the response is the well-formed record in fences, after a reasoning block
\* and between prose without braces, in any combination
WrappedRecord ==
    /\ embedded \in Records
    /\ \E think \in ThinkBlocks, lead \in LeadingProse, fences \in FencePairs,
          trail \in TrailingProse :
          response = Wrap(think, lead, fences, embedded, trail)

\* C26: for a well-formed record in markdown fences, after a reasoning-tag
\* block or between leading and trailing prose, and for combinations of
\* these, extract_json_from_response and improved_extract_json return
\* exactly the text of the embedded record
C26_RecoversEmbeddedRecord ==
    (ppc \in {"extracted", "improved"} /\ WrappedRecord) => json_str = embedded

\* C27: extract_json_from_response ends the record at the "}" that brings
\* the brace depth back to 0 counted from the first "{", so that trailing
\* commentary is dropped even when it has braces, on every path of the parser
C27_EndsAtBalancingBrace ==
    (ppc = "extracted" /\ Find(response, "{") > 0
        /\ ClosingBrace(response, Find(response, "{"), 0) > 0) =>
        json_str = SubSeq(response, Find(response, "{"),
                          ClosingBrace(response, Find(response, "{"), 0))

\* C28: when the text has an opening brace that no closing brace balances,
\* extract_json_from_response fails with ParseError instead of returning a
\* candidate substring
C28_ParseErrorWhenUnbalanced ==
    (ppc \in {"extracted", "parse_error"} /\ Find(response, "{") > 0
        /\ ClosingBrace(response, Find(response, "{"), 0) = 0) =>
        ppc = "parse_error"

----------------------------------------------------------------------------
(* enhanced_evaluate_solutions, enhanced_agent.py lines 339-513, and        *)
(* create_default_evaluations, lines 515-572.  Sub-scores are numbers in    *)
(* tenths, overall_score is an exact fraction of tenths.                    *)

\* line 470
SubScoreKeys ==
    <<"technical_quality", "completeness", "innovation", "practicality",
      "verification_score">>

\* lines 469-472: the values of the sub-scores that the item has, keys[i..]
RECURSIVE PresentScores(_, _)
PresentScores(eval_item, i) ==
    IF i > Len(SubScoreKeys) THEN <<>>
    ELSE (IF SubScoreKeys[i] \in DOMAIN eval_item
          THEN <<eval_item[SubScoreKeys[i]]>> ELSE <<>>)
         \o PresentScores(eval_item, i + 1)

\* line 474: sum() of a list that holds a string raises TypeError
SumRaises(scores) == \E i \in DOMAIN scores : scores[i] = NotANumber

\* lines 473-476
MutOverallIsFirstScore(scores) ==
    IF scores # <<>> THEN Frac(scores[1], 1) ELSE Frac(5, 1)
OverallOf(scores) == IF scores # <<>> THEN Mean(scores) ELSE Frac(5, 1)

\* lines 467-476 for one item
WithOverallScore(eval_item) ==
    IF "overall_score" \notin DOMAIN eval_item
    THEN SetItem(eval_item, "overall_score", OverallOf(PresentScores(eval_item, 1)))
    ELSE eval_item

\* the loop of line 466 raises on an item without overall_score whose
\* sub-scores cannot be added
FillRaises(result) ==
    /\ "detailed_evaluations" \in DOMAIN result
    /\ \E i \in DOMAIN result.detailed_evaluations :
          LET eval_item == result.detailed_evaluations[i]
          IN  /\ "overall_score" \notin DOMAIN eval_item
              /\ SumRaises(PresentScores(eval_item, 1))

\* lines 465-481: the record returned after a successful parse
EvaluationFromResult(result) ==
    LET filled ==
            IF "detailed_evaluations" \in DOMAIN result
            THEN SetItem(result, "detailed_evaluations",
                     [i \in DOMAIN result.detailed_evaluations |->
                         WithOverallScore(result.detailed_evaluations[i])])
            ELSE result
    IN  SetItem(SetItem(filled, "agent_id", SelfAgentId), "phase", "evaluation")

\* lines 343-344, 489, 521: isinstance(solution, dict) and "error" not in solution
Evaluable(solution) == ErrorFree(solution)

\* lines 490-501: the default entry after a JSON parse error (0.66 is 33/5
\* tenths)
ParseErrorEvaluation(agent_id) ==
    [agent_id |-> agent_id, technical_quality |-> 7, completeness |-> 7,
     innovation |-> 6, practicality |-> 7, verification_score |-> 6,
     overall_score |-> Frac(66, 10), comments |-> "Default evaluation due to JSON parsing error",
     verified_working |-> FALSE]

\* lines 487-501
RECURSIVE ParseErrorEvaluations(_)
ParseErrorEvaluations(solutions) ==
    IF solutions = <<>> THEN <<>>
    ELSE (IF Evaluable(Head(solutions)[2])
          THEN <<ParseErrorEvaluation(Head(solutions)[1])>> ELSE <<>>)
         \o ParseErrorEvaluations(Tail(solutions))

\* list(all_solutions.keys())
Keys(d) == [i \in DOMAIN d |-> d[i][1]]

\* lines 503-512
EvaluationAfterParseError(solutions) ==
    [detailed_evaluations |-> ParseErrorEvaluations(solutions),
     ranking |-> Keys(solutions), confidence |-> DefaultConfidence,
     agent_id |-> SelfAgentId, phase |-> "evaluation",
     error |-> [msg |-> "JSON parse error"]]

\* max(a, b) on numbers
MaxOf(a, b) == IF a >= b THEN a ELSE b

\* lines 522-548: the default entry after an empty or error response
DefaultEvaluation(agent_id, sol) ==
    LET has_code == "code_examples" \in DOMAIN sol /\ sol.code_examples # <<>>
        has_overview == "solution_overview" \in DOMAIN sol /\ sol.solution_overview # ""
        technical == MaxOf(5, IF has_code THEN 7 ELSE 3)
        completeness == MaxOf(5, IF has_code /\ has_overview THEN 8 ELSE 4)
        practicality == MaxOf(5, IF has_code THEN 7 ELSE 4)
        innovation == 5
        verification == 5
        overall_score ==
            Frac(technical + completeness + innovation + practicality + verification, 5)
    IN  [agent_id |-> agent_id, technical_quality |-> technical,
         completeness |-> completeness, innovation |-> innovation,
         practicality |-> practicality, verification_score |-> verification,
         overall_score |-> IF FracLess(overall_score, Frac(3, 1)) THEN Frac(3, 1)
                           ELSE overall_score,
         comments |-> "Default evaluation due to LLM failure",
         verified_working |-> FALSE]

\* lines 519-548
RECURSIVE DefaultEvaluations(_)
DefaultEvaluations(solutions) ==
    IF solutions = <<>> THEN <<>>
    ELSE (IF Evaluable(Head(solutions)[2])
          THEN <<DefaultEvaluation(Head(solutions)[1], Head(solutions)[2])>> ELSE <<>>)
         \o DefaultEvaluations(Tail(solutions))

\* all_solutions[x].get('confidence', 0)
ConfidenceOrZero(sol) == IF "confidence" \in DOMAIN sol THEN sol.confidence ELSE 0

\* lines 562-563: sorted(keys, key=confidence, reverse=True); the sort is
\* stable, so equal confidences keep the order of the dict
RECURSIVE InsertByConfidence(_, _, _)
InsertByConfidence(ranked, agent_id, solutions) ==
    IF ranked = <<>> THEN <<agent_id>>
    ELSE IF ConfidenceOrZero(Lookup(solutions, agent_id))
              > ConfidenceOrZero(Lookup(solutions, Head(ranked)))
         THEN <<agent_id>> \o ranked
         ELSE <<Head(ranked)>> \o InsertByConfidence(Tail(ranked), agent_id, solutions)

RECURSIVE RankingOf(_, _)
RankingOf(solutions, n) ==
    IF n = 0 THEN <<>>
    ELSE InsertByConfidence(RankingOf(solutions, n - 1), solutions[n][1], solutions)

\* create_default_evaluations, lines 515-572
create_default_evaluations(solutions) ==
    [detailed_evaluations |-> DefaultEvaluations(solutions),
     ranking |-> RankingOf(solutions, Len(solutions)),
     confidence |-> 6,
     best_agent |-> IF SourceConfidences(solutions) # <<>>
                    THEN MaxKey(SourceConfidences(solutions)) ELSE "agent_a",
     agent_id |-> SelfAgentId, phase |-> "evaluation",
     note |-> "Default evaluation due to LLM response issue"]

----------------------------------------------------------------------------
(* One call of enhanced_evaluate_solutions *)

\* the entries of the solve phase: a timeout, the fallback solution of
\* solution_phase (with its error), or a validated solution
SolveEntries ==
    {TimeoutRecord,
     [confidence |-> DefaultConfidence, error |-> [msg |-> "JSON parse error"],
      code_examples |-> <<"item">>, solution_overview |-> "text"]}
    \cup {[confidence |-> c, code_examples |-> l, solution_overview |-> "text"] :
            c \in {3, 8}, l \in {<<>>, <<"item">>}}

\* run_parallel_phase returns an entry for every agent of the roster
AllSolutionInputs ==
    {[i \in 1..Len(Roster) |-> <<Roster[i], f[Roster[i]]>>] : f \in [Agents -> SolveEntries]}

\* what call_llm returns: nothing, an error text, or a record, complete or
\* truncated, after a reasoning block and in fences
EvalResponses ==
    {<<>>, <<"\n">>, <<"Error:", " ", "t">>}
    \cup {Wrap(think, <<>>, fences, record, <<>>) :
            think \in ThinkBlocks, fences \in FencePairs,
            record \in {RecordText(1), SubSeq(RecordText(1), 1, 2)}}

\* the items an evaluator writes: any of the sub-scores, as numbers or as
\* text, with or without an overall_score
EvalEntryInputs ==
    UNION {{[x \in K \cup {"agent_id"} \cup O |->
                IF x = "agent_id" THEN Roster[2]
                ELSE IF x = "overall_score" THEN Frac(9, 1)
                ELSE v[x]] :
               v \in [K -> {3, 8, NotANumber}], O \in {{}, {"overall_score"}}} :
           K \in SUBSET {SubScoreKeys[i] : i \in DOMAIN SubScoreKeys}}

FewEntryInputs ==
    {[agent_id |-> Roster[1]],
     [agent_id |-> Roster[1], overall_score |-> Frac(4, 1)],
     [agent_id |-> Roster[1], technical_quality |-> 8, completeness |-> 3]}

\* the value of json.loads for a response that is a record
ParsedEvaluations ==
    {[detailed_evaluations |-> <<i>>, confidence |-> 8] : i \in EvalEntryInputs}
    \cup {[detailed_evaluations |-> <<j, i>>, confidence |-> 8] :
            i \in EvalEntryInputs, j \in FewEntryInputs}
    \cup {[confidence |-> 8]}

\* line 453
EmptyResponse(resp) ==
    resp = <<>> \/ Strip(resp) = <<>> \/ StartsWith(resp, <<"Error:">>)

\* lines 20-24 and 71-74: what extract_json_from_response logs
ExtractionLog(log, resp) ==
    LogActivity(
        LogActivity(log, "raw_llm_response",
            [response_length |-> Len(resp), has_think_tags |-> Contains(resp, "<think>")]),
        "extracted_json", [json_length |-> Len(extract_json_from_response(resp))])

\* lines 450-513; json.loads raises JSONDecodeError on a text that is no
\* balanced record and returns `loaded` otherwise
EvaluateSolutions ==
    /\ epc = "start"
    /\ IF EmptyResponse(response)
       THEN /\ evaluation_record' = create_default_evaluations(all_solutions)
            /\ activity_log' = LogActivity(activity_log, "evaluate_phase_empty_response",
                                   [error |-> "Empty or error response from LLM"])
            /\ epc' = "returned"
       ELSE IF ~IsBalancedRecord(extract_json_from_response(response))
       THEN /\ evaluation_record' = EvaluationAfterParseError(all_solutions)
            /\ activity_log' = ExtractionLog(activity_log, response)
            /\ epc' = "returned"
       ELSE IF FillRaises(loaded)
       THEN /\ evaluation_record' = evaluation_record
            /\ activity_log' = ExtractionLog(activity_log, response)
            /\ epc' = "raised"
       ELSE /\ evaluation_record' = EvaluationFromResult(loaded)
            /\ activity_log' =
                 LogActivity(ExtractionLog(activity_log, response),
                     "evaluation_phase_with_tools", EvaluationFromResult(loaded))
            /\ epc' = "returned"
    /\ UNCHANGED <<consensusVars, phaseVars, pipeVars, sendVars, parseVars, lateVars>>
    /\ UNCHANGED <<solution_record, vpc, all_solutions, loaded>>

InitEvaluate ==
    /\ LateIdle
    /\ ConsensusIdle
    /\ PhaseIdle
    /\ PipeIdle
    /\ SendIdle
    /\ ValidateIdle
    /\ embedded = <<>>
    /\ json_str = <<>>
    /\ ppc = "idle"
    /\ \/ /\ response \in EvalResponses
          /\ all_solutions \in AllSolutionInputs
          /\ loaded = [confidence |-> 8]
       \/ /\ response = RecordText(1)
          /\ all_solutions = [i \in 1..Len(Roster) |-> <<Roster[i], [confidence |-> 8]>>]
          /\ loaded \in ParsedEvaluations
    /\ evaluation_record = NoResult
    /\ epc = "start"

NextEvaluate == EvaluateSolutions

SpecEvaluate == InitEvaluate /\ [][NextEvaluate]_vars

\* the response is a record cut off before its end
TruncatedResponse ==
    /\ ~EmptyResponse(response)
    /\ Find(response, "{") > 0
    /\ ClosingBrace(response, Find(response, "{"), 0) = 0

\* C29: on a truncated response enhanced_evaluate_solutions returns a record
\* whose detailed_evaluations has one complete entry for every agent of the
\* roster, with verified_working false and the default score, also for the
\* agents whose solve-phase entry carries an error
C29_DefaultEntryForEveryAgent ==
    (epc = "returned" /\ TruncatedResponse) =>
        /\ "detailed_evaluations" \in DOMAIN evaluation_record
        /\ \A a \in Agents :
              \E i \in DOMAIN evaluation_record.detailed_evaluations :
                  LET e == evaluation_record.detailed_evaluations[i]
                  IN  /\ e.agent_id = a
                      /\ e.verified_working = FALSE
                      /\ e.overall_score = Frac(66, 10)
                      /\ \A j \in DOMAIN evaluation_record.detailed_evaluations :
                            evaluation_record.detailed_evaluations[j].agent_id = a
                                => j = i

\* the sum of the values of f at the keys of S
RECURSIVE SumOver(_, _)
SumOver(f, S) ==
    IF S = {} THEN 0
    ELSE LET k == CHOOSE x \in S : TRUE IN f[k] + SumOver(f, S \ {k})

\* C30: every entry of an evaluation record returned after a successful
\* parse has an overall_score; one that the evaluator omitted is the mean of
\* the sub-scores present and 0.5 when there is none, so that build_consensus
\* line 195 finds an overall_score in every entry
C30_OverallScorePresent ==
    /\ (epc = "returned" /\ "detailed_evaluations" \in DOMAIN evaluation_record) =>
          \A i \in DOMAIN evaluation_record.detailed_evaluations :
              "overall_score" \in DOMAIN evaluation_record.detailed_evaluations[i]
    /\ (epc = "returned" /\ ~EmptyResponse(response)
          /\ IsBalancedRecord(extract_json_from_response(response))
          /\ "detailed_evaluations" \in DOMAIN loaded) =>
          /\ Len(evaluation_record.detailed_evaluations) = Len(loaded.detailed_evaluations)
          /\ \A i \in DOMAIN evaluation_record.detailed_evaluations :
                LET given == loaded.detailed_evaluations[i]
                    e == evaluation_record.detailed_evaluations[i]
                    present == {k \in DOMAIN given :
                                   \E n \in DOMAIN SubScoreKeys : SubScoreKeys[n] = k}
                IN  /\ "overall_score" \in DOMAIN given =>
                          e.overall_score = given.overall_score
                    /\ ("overall_score" \notin DOMAIN given /\ present = {}) =>
                          e.overall_score = Frac(5, 1)
                    /\ ("overall_score" \notin DOMAIN given /\ present # {}) =>
                          e.overall_score.num * Cardinality(present)
                              = e.overall_score.den * SumOver(given, present)

\* an entry without overall_score and with two different sub-scores, and an
\* entry without any sub-score, have been returned with their overall_score
C30_Witness ==
    /\ epc = "returned"
    /\ "detailed_evaluations" \in DOMAIN loaded
    /\ Len(loaded.detailed_evaluations) = 2
    /\ DOMAIN loaded.detailed_evaluations[1] = {"agent_id"}
    /\ DOMAIN loaded.detailed_evaluations[2] = {"agent_id", "completeness", "innovation"}
    /\ loaded.detailed_evaluations[2].completeness = 3
    /\ loaded.detailed_evaluations[2].innovation = 8
    /\ evaluation_record.detailed_evaluations[1].overall_score = Frac(5, 1)
    /\ evaluation_record.detailed_evaluations[2].overall_score = Frac(11, 2)

----------------------------------------------------------------------------
(* The data of the phase tasks: collaborative_solve, redis_orchestrator.py
   lines 345-422, and process_task, redis_agent_worker.py lines 65-88 *)

\* the problem statement given to collaborative_solve
Problem == "problem"

\* dict.get(key) of lines 78, 80 and 84, redis_agent_worker.py
GetOrNone(d, key) == IF key \in DOMAIN d THEN d[key] ELSE None

\* dict.get(key, {}) of line 413
GetOrEmpty(d, key) == IF HasKey(d, key) THEN Lookup(d, key) ELSE EmptyDict

\* the second argument of run_parallel_phase at lines 363-366, 373-376,
\* 383-387, 394-397 and 410-414 (the instructions text of line 365 is left
\* out); ar holds the results of the phases that have returned
PhaseData(phase, ar) ==
    CASE phase = "plan"      -> [problem |-> Problem]
      [] phase = "analyze"   -> [problem |-> Problem,
                                 planning_context |-> Lookup(ar, "planning")]
      [] phase = "solve"     -> [problem |-> Problem,
                                 planning_context |-> Lookup(ar, "planning"),
                                 analysis_context |-> Lookup(ar, "analysis")]
      [] phase = "evaluate"  -> [problem |-> Problem,
                                 all_solutions |-> Lookup(ar, "solutions")]
      [] phase = "implement" -> [problem |-> Problem,
                                 consensus |-> Lookup(ar, "consensus"),
                                 best_solution |->
                                     GetOrEmpty(Lookup(ar, "solutions"),
                                                Lookup(ar, "consensus").best_agent)]

\* process_task lines 75-84: the method of the agent that is called and the
\* arguments it is given
MethodCall(task) ==
    LET phase == task.phase
        data  == task.data
    IN  CASE phase = "plan" ->
               [method |-> "planning_phase", problem |-> data.problem]
          [] phase = "analyze" ->
               [method |-> "deep_think_phase", problem |-> data.problem,
                planning_context |-> GetOrNone(data, "planning_context")]
          [] phase = "solve" ->
               [method |-> "solution_phase", problem |-> data.problem,
                planning_context |-> GetOrNone(data, "planning_context")]
          [] phase = "evaluate" ->
               [method |-> "enhanced_evaluate_solutions",
                all_solutions |-> data.all_solutions]
          [] phase = "implement" ->
               [method |-> "implement_consensus", consensus |-> data.consensus,
                best_solution |-> GetOrNone(data, "best_solution")]

\* the all_results["phases"] key of each phase, lines 367, 377, 388, 398, 415
PhaseKeyOf(phase) ==
    CASE phase = "plan"      -> "planning"
      [] phase = "analyze"   -> "analysis"
      [] phase = "solve"     -> "solutions"
      [] phase = "evaluate"  -> "evaluations"
      [] phase = "implement" -> "implementations"

\* the step of collaborative_solve that follows each phase
StepAfter(phase) ==
    CASE phase = "plan"      -> "analyze"
      [] phase = "analyze"   -> "solve"
      [] phase = "solve"     -> "evaluate"
      [] phase = "evaluate"  -> "consensus"
      [] phase = "implement" -> "select"

\* results of the plan and analyze phases: a timeout or a record
FlowContexts == PhaseResults({TimeoutRecord, [confidence |-> DefaultConfidence]})

\* results of the solve phase
FlowSolutions == PhaseResults({TimeoutRecord, [confidence |-> MaxScore]})

\* results of the evaluate phase: every evaluator timed out, or every
\* evaluator scored one agent id, which the model it asked made up or not
FlowEvaluations ==
    {[i \in 1..Len(Roster) |-> <<Roster[i], e>>] :
        e \in {TimeoutRecord} \cup
              {[detailed_evaluations |-> <<[agent_id |-> a, overall_score |-> MaxScore]>>,
                confidence |-> DefaultConfidence] : a \in {Roster[2], ForeignAgentId}}}

\* results of the implement phase
FlowImplementations == PhaseResults({TimeoutRecord})

FlowResults(phase) ==
    CASE phase = "plan"      -> FlowContexts
      [] phase = "analyze"   -> FlowContexts
      [] phase = "solve"     -> FlowSolutions
      [] phase = "evaluate"  -> FlowEvaluations
      [] phase = "implement" -> FlowImplementations

\* send_task_to_agent lines 51-60 with the data of the phase, as the worker
\* reads it back at line 48 of redis_agent_worker.py
TaskWithData(agent_id, phase, data) ==
    JsonLoads(JsonDumps([task_id |-> TaskId(agent_id, phase, 0),
                         session_id |-> SessionId, agent_id |-> agent_id,
                         phase |-> phase, data |-> data, status |-> "pending"]))

\* collaborative_solve enters run_parallel_phase with the data of the phase
FlowSend ==
    /\ dpc.at = "send"
    /\ task_data' = PhaseData(dpc.phase, all_results)
    /\ dpc' = [dpc EXCEPT !.at = "work"]
    /\ UNCHANGED <<all_results, agent_call>>
    /\ UNCHANGED <<consensusVars, phaseVars, pipeVars, sendVars, agentVars>>
    /\ UNCHANGED <<callVars, poolVars, clockVars>>

\* a worker takes the task of the phase and calls the agent
FlowWork ==
    /\ dpc.at = "work"
    /\ \E w \in Agents :
          agent_call' = MethodCall(TaskWithData(w, dpc.phase, task_data))
    /\ dpc' = [dpc EXCEPT !.at = "collect"]
    /\ UNCHANGED <<all_results, task_data>>
    /\ UNCHANGED <<consensusVars, phaseVars, pipeVars, sendVars, agentVars>>
    /\ UNCHANGED <<callVars, poolVars, clockVars>>

\* run_parallel_phase returns and its result is stored under the phase key
FlowCollect ==
    /\ dpc.at = "collect"
    /\ \E phase_results \in FlowResults(dpc.phase) :
          all_results' = Put(all_results, PhaseKeyOf(dpc.phase), phase_results)
    /\ dpc' = IF StepAfter(dpc.phase) \in {"consensus", "select"}
              THEN [phase |-> dpc.phase, at |-> StepAfter(dpc.phase)]
              ELSE [phase |-> StepAfter(dpc.phase), at |-> "send"]
    /\ UNCHANGED <<task_data, agent_call>>
    /\ UNCHANGED <<consensusVars, phaseVars, pipeVars, sendVars, agentVars>>
    /\ UNCHANGED <<callVars, poolVars, clockVars>>

\* lines 403-404
FlowConsensus ==
    /\ dpc.at = "consensus"
    /\ all_results' =
          Put(all_results, "consensus",
              build_consensus(Lookup(all_results, "evaluations"),
                              Lookup(all_results, "solutions")))
    /\ dpc' = [phase |-> "implement", at |-> "send"]
    /\ UNCHANGED <<task_data, agent_call>>
    /\ UNCHANGED <<consensusVars, phaseVars, pipeVars, sendVars, agentVars>>
    /\ UNCHANGED <<callVars, poolVars, clockVars>>

InitFlow ==
    /\ ConsensusIdle
    /\ PhaseIdle
    /\ PipeIdle
    /\ SendIdle
    /\ AgentIdle
    /\ CallIdle
    /\ PoolIdle
    /\ ClockIdle
    /\ all_results = <<>>
    /\ task_data = NoResult
    /\ agent_call = NoResult
    /\ dpc = [phase |-> "plan", at |-> "send"]

NextFlow ==
    \/ FlowSend
    \/ FlowWork
    \/ FlowCollect
    \/ FlowConsensus

SpecFlow == InitFlow /\ [][NextFlow]_vars

\* the data of the task in flight holds the results of the earlier phases
C31_PayloadFromEarlierPhases ==
    dpc.at \in {"work", "collect"} =>
        /\ dpc.phase \in {"analyze", "solve"} =>
              task_data.planning_context = Lookup(all_results, "planning")
        /\ dpc.phase = "solve" =>
              task_data.analysis_context = Lookup(all_results, "analysis")
        /\ dpc.phase = "evaluate" =>
              task_data.all_solutions = Lookup(all_results, "solutions")
        /\ dpc.phase = "implement" =>
              /\ task_data.consensus = Lookup(all_results, "consensus")
              /\ task_data.best_solution =
                    GetOrEmpty(Lookup(all_results, "solutions"),
                               Lookup(all_results, "consensus").best_agent)

\* the named argument of the method the worker called is the value v
CalledWith(name, v) == name \in DOMAIN agent_call /\ agent_call[name] = v

\* C31: the data of each phase task holds the results of the phases before
\* it (planning for analyze and solve, analysis for solve, solutions for
\* evaluate, the consensus and the solve entry of its best_agent, or an empty
\* record, for implement), and the worker hands each of them to the agent.
C31_EarlierOutputsUsed ==
    /\ C31_PayloadFromEarlierPhases
    /\ dpc.at = "collect" =>
        /\ dpc.phase \in {"analyze", "solve"} =>
              CalledWith("planning_context", Lookup(all_results, "planning"))
        /\ dpc.phase = "solve" =>
              CalledWith("analysis_context", Lookup(all_results, "analysis"))
        /\ dpc.phase = "evaluate" =>
              CalledWith("all_solutions", Lookup(all_results, "solutions"))
        /\ dpc.phase = "implement" =>
              /\ CalledWith("consensus", Lookup(all_results, "consensus"))
              /\ CalledWith("best_solution",
                            GetOrEmpty(Lookup(all_results, "solutions"),
                                       Lookup(all_results, "consensus").best_agent))

\* what the worker does hand on: everything but the analysis results
C31_AllButAnalysisUsed ==
    dpc.at = "collect" =>
        /\ dpc.phase \in {"analyze", "solve"} =>
              CalledWith("planning_context", Lookup(all_results, "planning"))
        /\ dpc.phase = "evaluate" =>
              CalledWith("all_solutions", Lookup(all_results, "solutions"))
        /\ dpc.phase = "implement" =>
              /\ CalledWith("consensus", Lookup(all_results, "consensus"))
              /\ CalledWith("best_solution",
                            GetOrEmpty(Lookup(all_results, "solutions"),
                                       Lookup(all_results, "consensus").best_agent))

\* the implement task of a consensus whose best_agent has no solve entry
C31_EmptyBestSolution ==
    /\ dpc.phase = "implement"
    /\ dpc.at = "collect"
    /\ agent_call.best_solution = EmptyDict
----------------------------------------------------------------------------
(* Parse-error fallback records in the final selection *)

\* the record implement_consensus returns after a JSON parse error,
\* enhanced_agent.py lines 652-658
IsParseFallback(record) ==
    /\ "error" \in DOMAIN record
    /\ record.error = [msg |-> "JSON parse error"]

\* the same record as a posted record that reports no error
AsPostedRecord(record) ==
    IF IsParseFallback(record)
    THEN [k \in DOMAIN record \ {"error"} |-> record[k]]
    ELSE record

\* the implement entries with every fallback record read as a posted record
FallbacksAsPosted(implementations) ==
    [i \in 1..Len(implementations) |->
        <<implementations[i][1], AsPostedRecord(implementations[i][2])>>]

\* C32: a record posted after a parse failure is treated like any other posted
\* record: the final selection is the one that would be made if the fallback
\* records of the implement phase reported no error.
C32_FallbackStaysCandidate ==
    cs_pc = "done" =>
        final_result =
            select_best_implementation(FallbacksAsPosted(implementation_results))

\* every agent posted a fallback record and the pipeline ends with an error
C32_OnlyFallbacksPosted ==
    /\ cs_pc = "done"
    /\ \A i \in 1..Len(implementation_results) :
          IsParseFallback(implementation_results[i][2])
    /\ final_result = NoValidImplementations
----------------------------------------------------------------------------
(* call_llm, agent_base.py lines 38-98, called by enhanced_evaluate_solutions
   at line 450 of enhanced_agent.py *)

\* the largest max_retries considered; the default of line 39 is 5
MaxRetries == 6

\* how a request of lines 66-69 can end: with a content (a text, "" or
\* blanks; None counts as ""), with a RequestException (no connection, a
\* timeout, an HTTP error status), or with another exception (an answer
\* without choices, a content that is no text)
Replies ==
    {[kind |-> "content", content |-> c] :
        c \in {<<>>, <<" ", "\n">>, RecordText(1), SubSeq(RecordText(1), 1, 2)}}
    \cup {[kind |-> "failure"], [kind |-> "malformed"]}

\* line 63
MutWaitUncapped(n) == 2 ^ (n - 1)

WaitTime(n) == IF 2 ^ (n - 1) < 10 THEN 2 ^ (n - 1) ELSE 10

\* line 80: not result or result.strip() == ""
IsEmptyResult(result) == result = <<>> \/ Strip(result) = <<>>

\* line 88: "Error: Empty response from API"
EmptyResponseError == <<"Error:", " ", "t">>

\* line 94: "Error calling LLM after 5 retries: ..."
RetriesError == <<"Error", " ", "t">>

\* line 97: "Unexpected error calling LLM: ..."
UnexpectedError == <<"Unexpected", " ", "t">>

\* how the iteration `n` of the loop ends for a reply: with the text that
\* call_llm returns, or with `continue`
Continue == <<"continue">>

IterationEnd(reply, n, retries) ==
    IF reply.kind = "malformed" THEN UnexpectedError
    ELSE IF reply.kind = "failure"
    THEN (IF n = retries - 1 THEN RetriesError ELSE Continue)
    ELSE IF ~IsEmptyResult(reply.content) THEN reply.content
    ELSE IF n = retries - 1 THEN EmptyResponseError
    ELSE Continue

\* lines 72-77: the activity logged once a content has arrived
LlmLog(log, reply, n) ==
    IF reply.kind = "content"
    THEN LogActivity(log, "llm_response",
             [response_length |-> Len(reply.content), attempt |-> n + 1])
    ELSE log

\* one iteration of the loop of lines 60-97; a returned text is the
\* `response` of enhanced_evaluate_solutions line 450
LlmAttempt ==
    /\ lpc = "loop"
    /\ attempt < max_retries
    /\ slept' = IF attempt > 0 THEN Append(slept, WaitTime(attempt)) ELSE slept
    /\ \E reply \in Replies :
          LET end == IterationEnd(reply, attempt, max_retries)
              log == LlmLog(activity_log, reply, attempt)
          IN  /\ replies' = Append(replies, reply)
              /\ IF end = Continue
                 THEN /\ attempt' = attempt + 1
                      /\ activity_log' = log
                      /\ UNCHANGED <<lpc, response, epc>>
                 ELSE /\ response' = end
                      /\ activity_log' =
                            IF end = EmptyResponseError
                            THEN LogActivity(log, "llm_empty_response",
                                     [attempts |-> max_retries])
                            ELSE log
                      /\ lpc' = "returned"
                      /\ epc' = "start"
                      /\ UNCHANGED attempt
    /\ UNCHANGED max_retries
    /\ UNCHANGED <<consensusVars, phaseVars, pipeVars, sendVars, flowVars, poolVars,
                   clockVars>>
    /\ UNCHANGED <<solution_record, vpc, embedded, json_str, ppc, all_solutions,
                   loaded, evaluation_record>>

\* the solve entries the evaluator is given
CallSolutionInputs ==
    {[i \in 1..Len(Roster) |-> <<Roster[i], [confidence |-> 8]>>],
     [i \in 1..Len(Roster) |->
         <<Roster[i], IF i = 1 THEN TimeoutRecord ELSE [confidence |-> 3]>>]}

InitCall ==
    /\ ConsensusIdle
    /\ PhaseIdle
    /\ PipeIdle
    /\ SendIdle
    /\ ValidateIdle
    /\ ParseIdle
    /\ FlowIdle
    /\ PoolIdle
    /\ ClockIdle
    /\ all_solutions \in CallSolutionInputs
    /\ loaded = [confidence |-> 8]
    /\ evaluation_record = NoResult
    /\ epc = "calling"
    /\ max_retries \in 1..MaxRetries
    /\ attempt = 0
    /\ slept = <<>>
    /\ replies = <<>>
    /\ lpc = "loop"

NextCall ==
    \/ LlmAttempt
    \/ EvaluateSolutions

\* the loop body does not block for ever: a request has a timeout of 120
\* seconds (line 66) and the sleeps are finite
SpecCall == InitCall /\ [][NextCall]_vars /\ WF_vars(LlmAttempt)

\* the reply is a content that is neither empty nor blank
NonEmptyReply(reply) == reply.kind = "content" /\ ~IsEmptyResult(reply.content)

\* C33: call_llm makes at most max_retries requests; before the request of
\* iteration n > 0 (n counts from 0, as `attempt` does) it sleeps
\* min(10, 2^(n-1)) seconds; no request follows a non-empty response, which
\* is returned; the call always ends by returning a text: the response, or
\* an error text after the last attempt came back empty or failed or after
\* an unexpected exception.
C33_CallTerminatesWithText ==
    /\ [](/\ Len(replies) <= max_retries
          /\ Len(slept) = (IF replies = <<>> THEN 0 ELSE Len(replies) - 1)
          /\ \A n \in 1..Len(slept) :
                slept[n] = (IF 2 ^ (n - 1) < 10 THEN 2 ^ (n - 1) ELSE 10)
          /\ \A i \in 1..(Len(replies) - 1) :
                ~NonEmptyReply(replies[i]) /\ replies[i].kind # "malformed"
          /\ lpc = "returned" =>
                LET last == replies[Len(replies)]
                IN  /\ response # <<>>
                    /\ NonEmptyReply(last) => response = last.content
                    /\ last.kind = "malformed" => response = UnexpectedError
                    /\ (last.kind = "failure" \/
                        (last.kind = "content" /\ IsEmptyResult(last.content))) =>
                          /\ Len(replies) = max_retries
                          /\ response = (IF last.kind = "failure" THEN RetriesError
                                         ELSE EmptyResponseError))
    /\ <>(lpc = "returned")

\* a call that was answered with nothing and with failures until the wait
\* reached its cap of 10 seconds, and then returned an error text
C33_Witness ==
    /\ lpc = "returned"
    /\ Len(replies) = MaxRetries
    /\ slept[Len(slept)] = 10
    /\ replies[1].kind = "failure"
    /\ replies[2].kind = "content"
    /\ response = RetriesError

\* call_llm ended with an error text
LlmErrorOutcome ==
    /\ lpc = "returned"
    /\ response \in {EmptyResponseError, RetriesError, UnexpectedError}

\* C34: when the evaluator's call_llm ends with an error text (all responses
\* empty, all requests failed, or an unexpected exception), what
\* enhanced_evaluate_solutions returns is the record of
\* create_default_evaluations, which has no error field.
C34_DefaultEvaluationsOnLlmError ==
    (LlmErrorOutcome /\ epc = "returned") =>
        /\ evaluation_record = create_default_evaluations(all_solutions)
        /\ "error" \notin DOMAIN evaluation_record

\* the one error text that line 453 recognises
C34_DefaultsAfterEmptyResponses ==
    (lpc = "returned" /\ response = EmptyResponseError /\ epc = "returned") =>
        /\ evaluation_record = create_default_evaluations(all_solutions)
        /\ "error" \notin DOMAIN evaluation_record
----------------------------------------------------------------------------
(* A phase that starts while a worker is still busy with the task of the
   phase before *)

\* the second phase starts at the moment the waits of the first have timed
\* out; the worker of one agent took its first task at once and has not
\* finished it (which is why its wait timed out), the other agents are idle
InitStale ==
    /\ FlowIdle
    /\ CallIdle
    /\ PoolIdle
    /\ SendIdle
    /\ AgentIdle
    /\ ConsensusIdle
    /\ PipeIdle
    /\ \E stale \in Agents :
          /\ timed = {stale}
          /\ worker = [a \in Agents |->
                         IF a = stale
                         THEN [st |-> "busy", task |-> Task(a, PhaseNames[1], 0),
                               since |-> 0]
                         ELSE IdleWorker]
    /\ phase_no = 2
    /\ now = TimeoutTicks
    /\ queue = [n \in {QueueName(a) : a \in Agents} |-> <<>>]
    /\ opc = "dispatch"
    /\ task_ids = <<>>
    /\ results = <<>>
    /\ waiter = [a \in Agents |-> IdleWaiter]
    /\ store = {}
    /\ posted = {}

\* brpop (redis_agent_worker.py line 44) returns as soon as the queue holds a
\* task: no time passes while a timed worker is free and its queue is not empty
PromptTick ==
    /\ Tick
    /\ \A w \in timed :
          ~(worker[w].st = "idle" /\ queue[WorkerQueueName(w)] # <<>>)

\* the workers of the other agents are not running
NextStale ==
    \/ Dispatch
    \/ \E a \in Agents : Poll(a)
    \/ ReturnResults
    \/ \E w \in timed : WorkerPop(w)
    \/ \E w \in timed : WorkerPost(w)
    \/ PromptTick

SpecStale == InitStale /\ [][NextStale]_vars

\* the entry of agent a in the results of the phase is the timeout record
TimedOutEntry(a) ==
    /\ HasKey(results, a)
    /\ Lookup(results, a) = TimeoutResult(Lookup(task_ids, a))

\* C35: an agent whose wait timed out in the phase before, and whose worker
\* needs less than the timeout for the task of this phase, gets an entry that
\* is not the timeout record: the timeouts of the phases are independent.
C35_TimeoutPerPhase ==
    opc = "returned" =>
        \A a \in timed :
            (\E p \in posted :
                /\ p.task_id = Lookup(task_ids, a)
                /\ p.took < TimeoutTicks)
            => ~TimedOutEntry(a)

\* the worker was busy with the task of the phase before until the wait of
\* this phase had run out, then processed the task of this phase in less
\* than a poll interval, and the entry of its agent is the timeout record
C35_StaleTaskDelaysNext ==
    /\ opc = "returned"
    /\ \E a \in timed :
          /\ TimedOutEntry(a)
          /\ \E p, q \in posted :
                /\ p.task_id = Task(a, PhaseNames[1], 0).task_id
                /\ p.took = 2 * TimeoutTicks
                /\ q.task_id = Lookup(task_ids, a)
                /\ q.took = 0
                /\ ~q.in_time
----------------------------------------------------------------------------
(* Tasks the orchestrator no longer waits for *)

\* the positions of the tasks of a phase in the queue of agent a
QueuedAt(a, phase) ==
    {i \in 1..Len(queue[QueueName(a)]) :
        JsonLoads(queue[QueueName(a)][i]).phase = phase}

\* the worker of agent a is processing its task of the phase
InProcessing(a, phase) ==
    /\ worker[a].st = "busy"
    /\ worker[a].task.phase = phase

\* a result has been stored for the task of agent a in the phase
HasPosted(a, phase) ==
    \E p \in posted : p.task_id.agent = a /\ p.task_id.phase = phase

\* the task of agent a in the phase was sent
WasSent(a, phase) ==
    QueuedAt(a, phase) # {} \/ InProcessing(a, phase) \/ HasPosted(a, phase)

\* C36: a task whose wait has timed out is taken from the queue by no one but
\* the worker, which processes it to completion and stores its result before
\* it starts on the task of the next phase; the result stays in the store;
\* a queue never holds two tasks of one phase.
C36_TimedOutTaskCompleted ==
    \A a \in Agents :
        /\ \A n \in 1..(Len(PhaseNames) - 1) :
              /\ WasSent(a, PhaseNames[n + 1]) => WasSent(a, PhaseNames[n])
              /\ (InProcessing(a, PhaseNames[n + 1]) \/ HasPosted(a, PhaseNames[n + 1]))
                    => HasPosted(a, PhaseNames[n])
        /\ \A n \in 1..Len(PhaseNames) :
              /\ Cardinality(QueuedAt(a, PhaseNames[n])) <= 1
              /\ \A p \in posted :
                    (p.task_id.agent = a /\ p.task_id.phase = PhaseNames[n])
                        => Exists(store, ResultKey(p.task_id))
----------------------------------------------------------------------------
(* Several worker processes started with the same agent id *)

\* the number of worker processes and of tasks sent to their agent id
MaxProcs == 2
MaxPoolTasks == 3

Procs == 1..MaxProcs

\* the agent id all these workers were started with
PoolAgent == Roster[1]

\* the events of one kind in the log
LogOf(op) == SelectSeq(pool_log, LAMBDA e : e.op = op)

\* send_task_to_agent line 63, for the phases in turn
PoolPush ==
    /\ Len(LogOf("push")) < MaxPoolTasks
    /\ LET task == Task(PoolAgent, PhaseNames[Len(LogOf("push")) + 1], 0)
       IN  /\ shared_queue' = LPush(shared_queue, JsonDumps(task))
           /\ pool_log' = Append(pool_log, [op |-> "push", task_id |-> task.task_id])
    /\ UNCHANGED pool
    /\ UNCHANGED <<consensusVars, phaseVars, pipeVars, sendVars, agentVars>>
    /\ UNCHANGED <<flowVars, callVars, clockVars>>

\* redis_agent_worker.py lines 44-48: BRPOP is one command, which the Redis
\* server executes for one client at a time
PoolPop(p) ==
    /\ pool[p].st = "idle"
    /\ shared_queue # <<>>
    /\ LET task == JsonLoads(RPopped(shared_queue))
       IN  /\ pool' = [pool EXCEPT ![p] = [st |-> "busy", task |-> task]]
           /\ pool_log' = Append(pool_log,
                              [op |-> "pop", task_id |-> task.task_id, proc |-> p])
    /\ shared_queue' = RRest(shared_queue)
    /\ UNCHANGED <<consensusVars, phaseVars, pipeVars, sendVars, agentVars>>
    /\ UNCHANGED <<flowVars, callVars, clockVars>>

\* lines 53-57: the result is stored under the key of the task
PoolPost(p) ==
    /\ pool[p].st = "busy"
    /\ pool_log' = Append(pool_log,
                       [op |-> "set", task_id |-> WorkerResultKey(pool[p].task)[2],
                        proc |-> p])
    /\ pool' = [pool EXCEPT ![p] = IdleWorker]
    /\ UNCHANGED shared_queue
    /\ UNCHANGED <<consensusVars, phaseVars, pipeVars, sendVars, agentVars>>
    /\ UNCHANGED <<flowVars, callVars, clockVars>>

\* lines 61-63: an exception ends the turn of the loop without a result
PoolDrop(p) ==
    /\ pool[p].st = "busy"
    /\ pool' = [pool EXCEPT ![p] = IdleWorker]
    /\ UNCHANGED <<shared_queue, pool_log>>
    /\ UNCHANGED <<consensusVars, phaseVars, pipeVars, sendVars, agentVars>>
    /\ UNCHANGED <<flowVars, callVars, clockVars>>

InitPool ==
    /\ ConsensusIdle
    /\ PhaseIdle
    /\ PipeIdle
    /\ SendIdle
    /\ AgentIdle
    /\ FlowIdle
    /\ CallIdle
    /\ ClockIdle
    /\ shared_queue = <<>>
    /\ pool = [p \in Procs |-> IdleWorker]
    /\ pool_log = <<>>

NextPool ==
    \/ PoolPush
    \/ \E p \in Procs : PoolPop(p)
    \/ \E p \in Procs : PoolPost(p)
    \/ \E p \in Procs : PoolDrop(p)

\* every worker is a loop that blocks in brpop for at most a second and
\* whose turn ends after the task is processed
SpecPool ==
    /\ InitPool
    /\ [][NextPool]_vars
    /\ WF_vars(\E p \in Procs : PoolPop(p))
    /\ WF_vars(\E p \in Procs : PoolPost(p) \/ PoolDrop(p))

\* the number of events of the kind for the task id
CountOf(op, task_id) ==
    Len(SelectSeq(pool_log, LAMBDA e : e.op = op /\ e.task_id = task_id))

\* C37: with several workers on one agent id, every task sent to the agent
\* is popped by exactly one worker: it is popped at most once, processed by
\* at most one worker and at most one result is stored under its task id;
\* and no task stays in the queue for ever.
C37_PoppedByOneWorker ==
    /\ [](\A i \in 1..Len(pool_log) :
            LET tid == pool_log[i].task_id IN
            /\ CountOf("pop", tid) <= 1
            /\ CountOf("set", tid) <= CountOf("pop", tid)
            /\ Cardinality({p \in Procs : pool[p].st = "busy"
                                          /\ pool[p].task.task_id = tid}) <= 1
            /\ CountOf("pop", tid) = 0 <=>
                  \E k \in 1..Len(shared_queue) :
                      JsonLoads(shared_queue[k]).task_id = tid)
    /\ <>[](shared_queue = <<>>)

\* all workers are processing tasks at the same time, after one of them has
\* stored the result of an earlier task
C37_Witness ==
    /\ \A p \in Procs : pool[p].st = "busy"
    /\ \E p, q \in Procs : pool[p].task.task_id # pool[q].task.task_id
    /\ \E i \in 1..Len(pool_log) : pool_log[i].op = "set"
----------------------------------------------------------------------------
(* The agent build_consensus chooses *)

\* C38: the best_agent of the consensus is an agent of the roster, whatever
\* agent ids the evaluations name, so that the best_solution of line 413 is
\* the solve entry of a roster agent.
C38_BestAgentInRoster ==
    cpc = "done" => consensus.best_agent \in Agents

\* the agent chosen has a solve entry (as every agent of the roster has after
\* run_parallel_phase) and some agent has a solve entry without an error
ChoiceAmongSolutions ==
    /\ cpc = "done"
    /\ HasKey(solution_results, consensus.best_agent)
    /\ \E a \in KeySet(solution_results) : ErrorFree(Lookup(solution_results, a))

\* C39: when some agent has a solve entry without an error, the best_agent
\* of the consensus, chosen by the scores or by the confidence fallback, is
\* an agent whose solve entry has no error.
C39_BestAgentHasSolution ==
    ChoiceAmongSolutions =>
        ErrorFree(Lookup(solution_results, consensus.best_agent))

\* the same for the choice by the scores alone
C39_RankedAgentHasSolution ==
    (ChoiceAmongSolutions /\ ~fallback_used) =>
        ErrorFree(Lookup(solution_results, consensus.best_agent))

\* the same for the confidence fallback alone
C39_FallbackAgentHasSolution ==
    (ChoiceAmongSolutions /\ fallback_used) =>
        ErrorFree(Lookup(solution_results, consensus.best_agent))
====
